---- MODULE Spec2Model ----
(***************************************************************************)
(* A model of orca-py: the grid (src/src/orca/grid.py), the ports          *)
(* (src/src/orca/ports.py), the operators (src/src/orca/operators.py) and  *)
(* the evaluator loop (src/scripts/renderer.py).                           *)
(*                                                                         *)
(* Conventions.  A glyph is a one-character string.  Python's None is the  *)
(* string "None" (no glyph has four characters).  Coordinates are the      *)
(* 0-based integers of the source; the rows of `state` and `locks` are     *)
(* TLA+ sequences, so cell (x,y) of the source is state[y+1][x+1].         *)
(* A Python exception is modelled by its class name; "" means that         *)
(* nothing was raised.                                                     *)
(***************************************************************************)
EXTENDS Integers, Sequences, FiniteSets, TLC

VARIABLES
    rows,         \* OrcaGrid.rows
    cols,         \* OrcaGrid.cols
    state,        \* OrcaGrid._state
    locks,        \* OrcaGrid._locks
    midi_events,  \* the grid's frame queue of MidiNoteOnEvent
    frame,        \* main's frame counter
    pc,           \* "idle": main waits in getch; "tick": inside update_grid's loop;
                  \* "crashed": an exception has escaped update_grid (and main)
    operators,    \* update_grid's list of discovered operators
    idx,          \* position of update_grid's for loop in `operators` (1-based)
    exc,          \* the exception that escaped, "" when none
    considered,   \* history: positions update_grid's loop has looked at this tick
    ran,          \* history: indices of the operators whose run() was called this tick
    moved,        \* history: indices of the operators whose move() relocated them
    last,         \* history: what the last loop iteration did
    stale,        \* history: whether the last reset found locks and events left behind
    call,         \* the last direct call of a grid method: its name, arguments and result
    _stack,       \* App._stack: the notes pushed since the last run_midi
    _stack_off,   \* App._stack_off: the notes the last run_midi turned on
    sent,         \* the messages given to midi_io.send_message, in order, each with
                  \* the number of the run_midi call that sent it
    drains,       \* history: the number of run_midi calls made
    tick_start,   \* history: the grid's state when the current tick began
    cursor,       \* main's Cursor: its x and y
    ticks         \* history: the number of update_grid calls begun

vars == <<rows, cols, state, locks, midi_events, frame, pc, operators, idx, exc,
          considered, ran, moved, last, stale, call, _stack, _stack_off, sent, drains,
          tick_start, cursor, ticks>>

\* the state of the MIDI sink, src/src/orca/midi.py
appVars == <<_stack, _stack_off, sent, drains>>

-----------------------------------------------------------------------------
(* Glyphs: src/src/orca/grid.py *)

BANG_GLYPH == "*"
DOT_GLYPH == "."
COMMENT_GLYPH == "#"
MIDI_GLYPH == ":"
None == "None"

GLYPH_TABLE ==
    << "0", "1", "2", "3", "4", "5", "6", "7", "8", "9",
       "a", "b", "c", "d", "e", "f", "g", "h", "i", "j", "k", "l", "m",
       "n", "o", "p", "q", "r", "s", "t", "u", "v", "w", "x", "y", "z" >>

GLYPH_TABLE_SIZE == Len(GLYPH_TABLE)

\* str.upper() applied to each entry of GLYPH_TABLE
UPPER_TABLE ==
    << "0", "1", "2", "3", "4", "5", "6", "7", "8", "9",
       "A", "B", "C", "D", "E", "F", "G", "H", "I", "J", "K", "L", "M",
       "N", "O", "P", "Q", "R", "S", "T", "U", "V", "W", "X", "Y", "Z" >>

\* the indices of GLYPH_TABLE that hold a cased character (a letter)
LetterIdx == {i \in 1..GLYPH_TABLE_SIZE : GLYPH_TABLE[i] # UPPER_TABLE[i]}

\* str.lower() of a one-character string
lower(g) ==
    IF \E i \in LetterIdx : UPPER_TABLE[i] = g
    THEN GLYPH_TABLE[CHOOSE i \in LetterIdx : UPPER_TABLE[i] = g]
    ELSE g

\* str.upper() of a one-character string
upper(g) ==
    IF \E i \in LetterIdx : GLYPH_TABLE[i] = g
    THEN UPPER_TABLE[CHOOSE i \in LetterIdx : GLYPH_TABLE[i] = g]
    ELSE g

\* str.isupper() of a one-character string
isupper(g) == \E i \in LetterIdx : UPPER_TABLE[i] = g

\* a table lookup that does not lower-case its argument first
index_of_case_sensitive(c) ==
    IF \E i \in 1..GLYPH_TABLE_SIZE : GLYPH_TABLE[i] = c
    THEN (CHOOSE i \in 1..GLYPH_TABLE_SIZE : GLYPH_TABLE[i] = c) - 1
    ELSE -1

\* index_of_orca_js: INDEX_TO_GLYPH.get(c.lower(), -1)
glyph_table_index_of(c) ==
    IF \E i \in 1..GLYPH_TABLE_SIZE : GLYPH_TABLE[i] = lower(c)
    THEN (CHOOSE i \in 1..GLYPH_TABLE_SIZE : GLYPH_TABLE[i] = lower(c)) - 1
    ELSE -1

glyph_to_value(glyph) ==
    IF glyph \in {DOT_GLYPH, BANG_GLYPH, None, ""}
    THEN 0
    ELSE glyph_table_index_of(glyph)

value_of(g) == glyph_to_value(g)

\* Python's a % b for b # 0: the result has the sign of b
PyMod(a, b) == IF b > 0 THEN a % b ELSE -((-a) % (-b))

key_of(index, upper_case) ==
    LET glyph == GLYPH_TABLE[(index % GLYPH_TABLE_SIZE) + 1]
    IN  IF upper_case THEN upper(glyph) ELSE glyph

-----------------------------------------------------------------------------
(* Grid primitives: src/src/orca/grid.py *)

\* Python's list indexing seq[i] on a list of length n: the 1-based position it
\* addresses, negative indices counting from the end; 0 stands for IndexError.
PyIndex(n, i) ==
    IF 0 <= i /\ i < n THEN i + 1
    ELSE IF -n <= i /\ i < 0 THEN n + i + 1
    ELSE 0

\* whether self._state[y][x] (or self._locks[y][x]) raises IndexError
IndexError(g, x, y) ==
    \/ PyIndex(Len(g), y) = 0
    \/ PyIndex(Len(g[PyIndex(Len(g), y)]), x) = 0

\* g[y][x] when no IndexError is raised
At(g, x, y) ==
    LET r == PyIndex(Len(g), y) IN g[r][PyIndex(Len(g[r]), x)]

\* g[y][x] = v when no IndexError is raised
Put(g, x, y, v) ==
    LET r == PyIndex(Len(g), y) IN
    [g EXCEPT ![r] = [@ EXCEPT ![PyIndex(Len(g[r]), x)] = v]]

peek(st, x, y) == IF IndexError(st, x, y) THEN None ELSE At(st, x, y)

poke(st, x, y, value) == IF IndexError(st, x, y) THEN st ELSE Put(st, x, y, value)

\* lock(x, y) has no try/except: callers test IndexError(lk, x, y) first
lock(lk, x, y) == Put(lk, x, y, TRUE)

is_locked(lk, x, y) == At(lk, x, y)

reset_locks(st) == [r \in 1..Len(st) |-> [c \in 1..Len(st[1]) |-> FALSE]]

-----------------------------------------------------------------------------
(* Ports: src/src/orca/ports.py.  `default` is "" when the port has none;     *)
(* `clamp` names the clamp function the operator gave the port.               *)

default_clamp(v) == v

\* the clamp callables the operators pass to their ports
ApplyClamp(clamp, v) ==
    CASE clamp = "default_clamp" -> default_clamp(v)
      [] clamp = "max(1, x)" -> IF v < 1 THEN 1 ELSE v
      [] clamp = "min(max(0, x), 8)" -> IF v < 0 THEN 0 ELSE IF v > 8 THEN 8 ELSE v
      [] clamp = "min(max(0, x), 16)" -> IF v < 0 THEN 0 ELSE IF v > 16 THEN 16 ELSE v
      [] clamp = "min(max(0, x), 32)" -> IF v < 0 THEN 0 ELSE IF v > 32 THEN 32 ELSE v

IPort(name, x, y, clamp, default, is_output, is_sensitive, is_bang) ==
    [name |-> name, x |-> x, y |-> y, clamp |-> clamp, default |-> default,
     is_output |-> is_output, is_sensitive |-> is_sensitive, is_bang |-> is_bang]

InputPort(name, x, y, clamp, default) ==
    IPort(name, x, y, clamp, default, FALSE, FALSE, FALSE)

OutputPort(name, x, y, is_sensitive, is_bang) ==
    IPort(name, x, y, "default_clamp", "", TRUE, is_sensitive, is_bang)

OUTPUT_PORT_NAME == "output"

listen(st, port) ==
    LET g == peek(st, port.x, port.y)
    IN  IF g \in {DOT_GLYPH, BANG_GLYPH} /\ port.default # ""
        THEN port.default
        ELSE g

listen_as_value(st, port) == ApplyClamp(port.clamp, value_of(listen(st, port)))

-----------------------------------------------------------------------------
(* Operators: construction.  src/scripts/renderer.py, src/src/orca/operators.py *)

\* _CHAR_TO_OPERATOR_CLASS: the class a (lower-cased) character names, "" for none
_CHAR_TO_OPERATOR_CLASS(c) ==
    CASE c = "a" -> "Add"
      [] c = "b" -> "Substract"
      [] c = "c" -> "Clock"
      [] c = "d" -> "Delay"
      [] c = "e" -> "East"
      [] c = "f" -> "If"
      [] c = "g" -> "Generator"
      [] c = "h" -> "Halt"
      [] c = "i" -> "Increment"
      [] c = "m" -> "Multiply"
      [] c = "n" -> "North"
      [] c = "r" -> "Random"
      [] c = "s" -> "South"
      [] c = "t" -> "Track"
      [] c = "w" -> "West"
      [] c = BANG_GLYPH -> "Bang"
      [] c = MIDI_GLYPH -> "Midi"
      [] c = COMMENT_GLYPH -> "Comment"
      [] OTHER -> ""

\* the glyph= argument each class passes to IOperator.__init__
ClassGlyph(klass) ==
    CASE klass = "Add" -> "a"
      [] klass = "Substract" -> "b"
      [] klass = "Clock" -> "c"
      [] klass = "Delay" -> "d"
      [] klass = "East" -> "e"
      [] klass = "If" -> "f"
      [] klass = "Generator" -> "g"
      [] klass = "Halt" -> "h"
      [] klass = "Increment" -> "i"
      [] klass = "Multiply" -> "m"
      [] klass = "North" -> "n"
      [] klass = "Random" -> "r"
      [] klass = "South" -> "s"
      [] klass = "Track" -> "t"
      [] klass = "West" -> "w"
      [] klass = "Bang" -> BANG_GLYPH
      [] klass = "Midi" -> MIDI_GLYPH
      [] klass = "Comment" -> COMMENT_GLYPH

\* the ports each class declares in its __init__, in the dict's insertion order
InitPorts(klass, x, y) ==
    CASE klass \in {"Add", "Substract", "Multiply", "Random"} ->
            << InputPort(IF klass = "Random" THEN "min" ELSE "a", x - 1, y, "default_clamp", ""),
               InputPort(IF klass = "Random" THEN "max" ELSE "b", x + 1, y, "default_clamp", ""),
               OutputPort(OUTPUT_PORT_NAME, x, y + 1, TRUE, FALSE) >>
      [] klass = "Clock" ->
            << InputPort("rate", x - 1, y, "max(1, x)", ""),
               InputPort("mod", x + 1, y, "default_clamp", "8"),
               OutputPort(OUTPUT_PORT_NAME, x, y + 1, TRUE, FALSE) >>
      [] klass = "Delay" ->
            << InputPort("rate", x - 1, y, "max(1, x)", ""),
               InputPort("mod", x + 1, y, "default_clamp", "8"),
               OutputPort(OUTPUT_PORT_NAME, x, y + 1, FALSE, TRUE) >>
      [] klass = "Generator" ->
            << InputPort("x", x - 3, y, "default_clamp", ""),
               InputPort("y", x - 2, y, "default_clamp", ""),
               InputPort("len", x - 1, y, "max(1, x)", "") >>
      [] klass = "If" ->
            << InputPort("a", x - 1, y, "default_clamp", ""),
               InputPort("b", x + 1, y, "default_clamp", ""),
               OutputPort(OUTPUT_PORT_NAME, x, y + 1, FALSE, TRUE) >>
      [] klass = "Increment" ->
            << InputPort("step", x - 1, y, "default_clamp", "1"),
               InputPort("mod", x + 1, y, "default_clamp", ""),
               OutputPort(OUTPUT_PORT_NAME, x, y + 1, TRUE, FALSE) >>
      [] klass = "Track" ->
            << InputPort("key", x - 2, y, "default_clamp", ""),
               InputPort("len", x - 1, y, "max(1, x)", ""),
               OutputPort(OUTPUT_PORT_NAME, x, y + 1, FALSE, FALSE) >>
      [] klass = "Midi" ->
            << InputPort("channel", x + 1, y, "default_clamp", ""),
               InputPort("octave", x + 2, y, "min(max(0, x), 8)", ""),
               InputPort("note", x + 3, y, "default_clamp", ""),
               InputPort("velocity", x + 4, y, "min(max(0, x), 16)", "f"),
               InputPort("length", x + 5, y, "min(max(0, x), 32)", "") >>
      [] OTHER -> << >>

\* self.ports[name]
PortNamed(ports, name) == ports[CHOOSE i \in DOMAIN ports : ports[i].name = name]

\* IOperator.__init__ as called by the class klass: the new operator object
IOperator(klass, x, y, is_passive) ==
    LET passive == IF klass = "Midi" THEN TRUE ELSE is_passive
    IN  [klass |-> klass, x |-> x, y |-> y,
         is_passive |-> passive,
         glyph |-> IF passive THEN upper(ClassGlyph(klass)) ELSE ClassGlyph(klass),
         ports |-> InitPorts(klass, x, y)]

\* operator_factory returns None for a character that names no class: HasOperator
\* is that test, operator_factory the object built otherwise
HasOperator(grid_char) == _CHAR_TO_OPERATOR_CLASS(lower(grid_char)) # ""

operator_factory(grid_char, x, y) ==
    IOperator(_CHAR_TO_OPERATOR_CLASS(lower(grid_char)), x, y, isupper(grid_char))

\* a scan that runs down the columns instead of along the rows
ScanOrderColumnMajor(st) ==
    [k \in 1..(Len(st) * Len(st[1])) |->
        [x |-> (k - 1) \div Len(st), y |-> (k - 1) % Len(st)]]

\* the cells parse_grid visits, in the order of its two nested loops,
\* as the sequence of their 0-based (x, y)
ScanOrder(st) ==
    [k \in 1..(Len(st) * Len(st[1])) |->
        [x |-> (k - 1) % Len(st[1]), y |-> (k - 1) \div Len(st[1])]]

RECURSIVE ParseFrom(_, _, _)
ParseFrom(st, order, k) ==
    IF k > Len(order) THEN << >>
    ELSE LET c == st[order[k].y + 1][order[k].x + 1]
         IN  IF c # DOT_GLYPH /\ HasOperator(c)
             THEN <<operator_factory(c, order[k].x, order[k].y)>> \o ParseFrom(st, order, k + 1)
             ELSE ParseFrom(st, order, k + 1)

parse_grid(st) == ParseFrom(st, ScanOrder(st), 1)

-----------------------------------------------------------------------------
(* Operators: the shared protocol.  src/src/orca/operators.py                *)
(*                                                                           *)
(* A call works on a record R: the grid's state st, locks lk and event queue *)
(* ev, the operator object op (its x, y, is_passive and ports are mutable),  *)
(* the exception exc raised so far, operation's return value (payload for a  *)
(* glyph, bang for a boolean) and outs, the pokes _output has made.          *)

\* a call on the grid as it was when the tick began
CallOnTickStart(st, lk, ev, op) ==
    [st |-> tick_start, lk |-> lk, ev |-> ev, op |-> op, exc |-> "",
     payload |-> None, bang |-> FALSE, outs |-> << >>]

Call(st, lk, ev, op) ==
    [st |-> st, lk |-> lk, ev |-> ev, op |-> op, exc |-> "",
     payload |-> None, bang |-> FALSE, outs |-> << >>]

\* OrcaGrid.is_inside
is_inside(st, x, y) == 0 <= x /\ x < Len(st[1]) /\ 0 <= y /\ y < Len(st)

\* OrcaGrid.push_midi
push_midi(ev, event) == Append(ev, event)

MidiNoteOnEvent(channel, octave, note, velocity, length) ==
    [channel |-> channel, octave |-> octave, note |-> note,
     velocity |-> velocity, length |-> length]

erase(R) == [R EXCEPT !.st = poke(R.st, R.op.x, R.op.y, DOT_GLYPH)]

explode(R) == [R EXCEPT !.st = poke(R.st, R.op.x, R.op.y, BANG_GLYPH)]

has_neighbor(st, op, glyph) ==
    \E d \in {<<-1, 0>>, <<1, 0>>, <<0, -1>>, <<0, 1>>} :
        peek(st, op.x + d[1], op.y + d[2]) = glyph

\* a move that looks at the grid's bounds but not at the collider
moveOverCollider(R, offset_x, offset_y) ==
    IF ~is_inside(R.st, R.op.x + offset_x, R.op.y + offset_y) THEN explode(R)
    ELSE [erase(R) EXCEPT
            !.op.x = R.op.x + offset_x,
            !.op.y = R.op.y + offset_y,
            !.st = poke(@, R.op.x + offset_x, R.op.y + offset_y, R.op.glyph),
            !.lk = lock(@, R.op.x + offset_x, R.op.y + offset_y)]

\* a move that does not lock the cell it moves to
moveWithoutLock(R, offset_x, offset_y) ==
    IF ~is_inside(R.st, R.op.x + offset_x, R.op.y + offset_y) THEN explode(R)
    ELSE IF peek(R.st, R.op.x + offset_x, R.op.y + offset_y) \notin {BANG_GLYPH, DOT_GLYPH}
    THEN explode(R)
    ELSE [erase(R) EXCEPT
            !.op.x = R.op.x + offset_x,
            !.op.y = R.op.y + offset_y,
            !.st = poke(@, R.op.x + offset_x, R.op.y + offset_y, R.op.glyph)]

\* a move that leaves the operator's glyph behind in the cell it leaves
moveLeavingCopy(R, offset_x, offset_y) ==
    IF ~is_inside(R.st, R.op.x + offset_x, R.op.y + offset_y) THEN explode(R)
    ELSE IF peek(R.st, R.op.x + offset_x, R.op.y + offset_y) \notin {BANG_GLYPH, DOT_GLYPH}
    THEN explode(R)
    ELSE [R EXCEPT
            !.op.x = R.op.x + offset_x,
            !.op.y = R.op.y + offset_y,
            !.st = poke(@, R.op.x + offset_x, R.op.y + offset_y, R.op.glyph),
            !.lk = lock(@, R.op.x + offset_x, R.op.y + offset_y)]

move(R, offset_x, offset_y) ==
    LET new_x == R.op.x + offset_x
        new_y == R.op.y + offset_y
    IN  IF ~is_inside(R.st, new_x, new_y) THEN explode(R)
        ELSE IF peek(R.st, new_x, new_y) \notin {BANG_GLYPH, DOT_GLYPH} THEN explode(R)
        ELSE [erase(R) EXCEPT
                !.op.x = new_x,
                !.op.y = new_y,
                !.st = poke(@, new_x, new_y, R.op.glyph),
                !.lk = IF is_inside(R.st, new_x, new_y) THEN lock(@, new_x, new_y) ELSE @]

HasOutputPort(op) == \E i \in DOMAIN op.ports : op.ports[i].name = OUTPUT_PORT_NAME

_output_port(op) == PortNamed(op.ports, OUTPUT_PORT_NAME)

\* value.lower() in _should_upper_case raises AttributeError when listen gave None
ShouldUpperCaseRaises(st, op) ==
    /\ HasOutputPort(op)
    /\ _output_port(op).is_sensitive
    /\ listen(st, InputPort("right", op.x + 1, op.y, "default_clamp", "")) = None

_should_upper_case(st, op) ==
    IF ~HasOutputPort(op) \/ ~_output_port(op).is_sensitive
    THEN FALSE
    ELSE LET value == listen(st, InputPort("right", op.x + 1, op.y, "default_clamp", ""))
         IN  IF lower(value) = upper(value) \/ upper(value) # value
             THEN FALSE
             ELSE TRUE

_bang(R, payload) ==
    LET output_port == _output_port(R.op)
    IN  [R EXCEPT !.st = poke(@, output_port.x, output_port.y,
                              IF payload THEN BANG_GLYPH ELSE DOT_GLYPH)]

\* an _output that leaves a locked cell alone
OutputPokeUnlessLocked(R, output_port, value) ==
    [R EXCEPT !.st = IF ~IndexError(R.lk, output_port.x, output_port.y)
                        /\ is_locked(R.lk, output_port.x, output_port.y)
                     THEN @
                     ELSE poke(@, output_port.x, output_port.y, value),
              !.outs = Append(@, [x |-> output_port.x, y |-> output_port.y,
                                  value |-> value])]

\* _output's poke of the glyph `value`
OutputPoke(R, output_port, value) ==
    [R EXCEPT !.st = poke(@, output_port.x, output_port.y, value),
              !.outs = Append(@, [x |-> output_port.x, y |-> output_port.y,
                                  value |-> value])]

_output(R, glyph, output_port) ==
    IF glyph = None THEN R
    ELSE IF ShouldUpperCaseRaises(R.st, R.op) THEN [R EXCEPT !.exc = "AttributeError"]
    ELSE OutputPoke(R, output_port,
                    IF _should_upper_case(R.st, R.op) THEN upper(glyph) ELSE glyph)

\* self._grid.lock(p.x, p.y) for each p of the sequence ps, in order, up to the
\* first IndexError
RECURSIVE LockEach(_, _)
LockEach(R, ps) ==
    IF ps = << >> THEN R
    ELSE IF IndexError(R.lk, Head(ps).x, Head(ps).y) THEN [R EXCEPT !.exc = "IndexError"]
    ELSE LockEach([R EXCEPT !.lk = lock(@, Head(ps).x, Head(ps).y)], Tail(ps))

-----------------------------------------------------------------------------
(* Operators: each class's operation(frame).  src/src/orca/operators.py *)

Add_operation(R) ==
    LET index == listen_as_value(R.st, PortNamed(R.op.ports, "a"))
                 + listen_as_value(R.st, PortNamed(R.op.ports, "b"))
    IN  [R EXCEPT !.payload = key_of(index, FALSE)]

Substract_operation(R) ==
    LET a == listen_as_value(R.st, PortNamed(R.op.ports, "a"))
        b == listen_as_value(R.st, PortNamed(R.op.ports, "b"))
    IN  [R EXCEPT !.payload = key_of(IF b - a < 0 THEN a - b ELSE b - a, FALSE)]

Clock_operation(R, f) ==
    LET rate == listen_as_value(R.st, PortNamed(R.op.ports, "rate"))
        mod == listen_as_value(R.st, PortNamed(R.op.ports, "mod"))
    IN  IF mod = 0 THEN [R EXCEPT !.exc = "ZeroDivisionError"]
        ELSE [R EXCEPT !.payload = key_of(PyMod(f \div rate, mod), FALSE)]

Delay_operation(R, f) ==
    LET rate == listen_as_value(R.st, PortNamed(R.op.ports, "rate"))
        mod == listen_as_value(R.st, PortNamed(R.op.ports, "mod"))
    IN  IF mod * rate = 0 THEN [R EXCEPT !.exc = "ZeroDivisionError"]
        ELSE [R EXCEPT !.bang = (PyMod(f, mod * rate) = 0 \/ mod = 1)]

East_operation(R) == [move(R, 1, 0) EXCEPT !.op.is_passive = FALSE]

West_operation(R) == [move(R, -1, 0) EXCEPT !.op.is_passive = FALSE]

North_operation(R) == [move(R, 0, -1) EXCEPT !.op.is_passive = FALSE]

South_operation(R) == [move(R, 0, 1) EXCEPT !.op.is_passive = FALSE]

\* the body of Generator.operation's for loop, from `offset` to length - 1
RECURSIVE GeneratorLoop(_, _, _, _, _)
GeneratorLoop(R, x, y, offset, length) ==
    IF offset >= length THEN R
    ELSE LET input_port ==
                 InputPort("input", R.op.x + offset + 1, R.op.y, "default_clamp", "")
             output_port ==
                 OutputPort("output_", R.op.x + x + offset, R.op.y + y, FALSE, FALSE)
             R1 == [R EXCEPT !.op.ports = @ \o <<input_port, output_port>>]
             res == listen(R1.st, input_port)
         IN  GeneratorLoop(_output(R1, res, output_port), x, y, offset + 1, length)

Generator_operation(R) ==
    LET length == listen_as_value(R.st, PortNamed(R.op.ports, "len"))
        x == listen_as_value(R.st, PortNamed(R.op.ports, "x"))
        y == listen_as_value(R.st, PortNamed(R.op.ports, "y")) + 1
    IN  GeneratorLoop(R, x, y, 0, length)

\* a Halt whose operation does nothing
Halt_operationWithoutLock(R) == R

Halt_operation(R) ==
    IF IndexError(R.lk, R.op.x, R.op.y + 1) THEN [R EXCEPT !.exc = "IndexError"]
    ELSE [R EXCEPT !.lk = lock(@, R.op.x, R.op.y + 1)]

If_operation(R) ==
    LET a == listen(R.st, PortNamed(R.op.ports, "a"))
        b == listen(R.st, PortNamed(R.op.ports, "b"))
    IN  [R EXCEPT !.bang = (a = b)]

Increment_operation(R) ==
    LET step == listen_as_value(R.st, PortNamed(R.op.ports, "step"))
        mod == listen_as_value(R.st, PortNamed(R.op.ports, "mod"))
        out == listen_as_value(R.st, PortNamed(R.op.ports, OUTPUT_PORT_NAME))
    IN  [R EXCEPT !.payload =
            key_of(PyMod(out + step, IF mod > 0 THEN mod ELSE GLYPH_TABLE_SIZE), FALSE)]

Multiply_operation(R) ==
    LET a == listen_as_value(R.st, PortNamed(R.op.ports, "a"))
        b == listen_as_value(R.st, PortNamed(R.op.ports, "b"))
    IN  [R EXCEPT !.payload = key_of(a * b, FALSE)]

\* random.randint(low, high) raises ValueError on an empty range; otherwise it
\* returns some value of low..high, here the choice `rnd`
Random_operation(R, rnd) ==
    LET low == listen_as_value(R.st, PortNamed(R.op.ports, "min"))
        high == listen_as_value(R.st, PortNamed(R.op.ports, "max"))
    IN  IF low > high THEN [R EXCEPT !.exc = "ValueError"]
        ELSE [R EXCEPT !.payload = key_of(rnd, FALSE)]

\* the values random.randint may return to the operator op on the grid st
RandomChoices(st, op) ==
    IF op.klass # "Random" THEN {0}
    ELSE LET low == listen_as_value(st, PortNamed(op.ports, "min"))
             high == listen_as_value(st, PortNamed(op.ports, "max"))
         IN  IF low > high THEN {0} ELSE low..high

Track_operation(R) ==
    LET key == listen_as_value(R.st, PortNamed(R.op.ports, "key"))
        length == listen_as_value(R.st, PortNamed(R.op.ports, "len"))
        R1 == LockEach(R, [offset \in 1..length |->
                              [x |-> R.op.x + (offset - 1) + 1, y |-> R.op.y]])
        port == InputPort("track", R.op.x + 1 + PyMod(key, length), R.op.y,
                          "default_clamp", "")
    IN  IF R1.exc # "" THEN R1
        ELSE [R1 EXCEPT !.payload = listen(R1.st, port)]

Bang_operation(R) == erase(R)

\* Comment.operation's for loop, from column x on
RECURSIVE CommentLoop(_, _)
CommentLoop(R, x) ==
    IF x >= Len(R.st[1]) THEN R
    ELSE LET R1 == [R EXCEPT !.lk = lock(@, x, R.op.y)]
         IN  IF peek(R.st, x, R.op.y) = R.op.glyph THEN R1
             ELSE CommentLoop(R1, x + 1)

Comment_operation(R) ==
    CommentLoop([R EXCEPT !.lk = lock(@, R.op.x, R.op.y)], R.op.x + 1)

Midi_operation(R) ==
    IF ~has_neighbor(R.st, R.op, BANG_GLYPH) THEN R
    ELSE IF \E port_name \in {"channel", "octave", "note"} :
                listen(R.st, PortNamed(R.op.ports, port_name)) = DOT_GLYPH
    THEN R
    ELSE LET note == listen(R.st, PortNamed(R.op.ports, "note"))
             channel == listen_as_value(R.st, PortNamed(R.op.ports, "channel"))
             octave == listen_as_value(R.st, PortNamed(R.op.ports, "octave"))
             velocity == listen_as_value(R.st, PortNamed(R.op.ports, "velocity"))
             length == listen_as_value(R.st, PortNamed(R.op.ports, "length"))
         IN  IF channel > 15 THEN R
             ELSE [R EXCEPT !.ev = push_midi(@,
                       MidiNoteOnEvent(channel, octave, note, velocity, length))]

\* self.operation(frame, force) dispatched on the operator's class
operation(R, f, rnd) ==
    CASE R.op.klass = "Add" -> Add_operation(R)
      [] R.op.klass = "Substract" -> Substract_operation(R)
      [] R.op.klass = "Clock" -> Clock_operation(R, f)
      [] R.op.klass = "Delay" -> Delay_operation(R, f)
      [] R.op.klass = "East" -> East_operation(R)
      [] R.op.klass = "If" -> If_operation(R)
      [] R.op.klass = "Generator" -> Generator_operation(R)
      [] R.op.klass = "Halt" -> Halt_operation(R)
      [] R.op.klass = "Increment" -> Increment_operation(R)
      [] R.op.klass = "Multiply" -> Multiply_operation(R)
      [] R.op.klass = "North" -> North_operation(R)
      [] R.op.klass = "Random" -> Random_operation(R, rnd)
      [] R.op.klass = "South" -> South_operation(R)
      [] R.op.klass = "Track" -> Track_operation(R)
      [] R.op.klass = "West" -> West_operation(R)
      [] R.op.klass = "Bang" -> Bang_operation(R)
      [] R.op.klass = "Midi" -> Midi_operation(R)
      [] R.op.klass = "Comment" -> Comment_operation(R)

\* a run() that skips every output port when it locks
PortsToLockInputsOnly(op) ==
    SelectSeq(op.ports, LAMBDA port : ~port.is_output)

\* the ports run() locks: all but an output port that is_bang
PortsToLock(op) ==
    SelectSeq(op.ports, LAMBDA port : ~(port.is_output /\ port.is_bang))

\* IOperator.run, its last part: the payload goes to the output port, if any
RunOutput(R) ==
    IF R.exc # "" THEN R
    ELSE IF ~HasOutputPort(R.op) THEN R
    ELSE IF _output_port(R.op).is_bang THEN _bang(R, R.bang)
    ELSE _output(R, R.payload, _output_port(R.op))

\* IOperator.run, its middle part: the ports are locked
RunLockPorts(R) ==
    IF R.exc # "" THEN R
    ELSE RunOutput(LockEach(R, PortsToLock(R.op)))

\* a run() that locks no port
runWithoutLocks(R, f, rnd) == RunOutput(operation(R, f, rnd))

\* IOperator.run(frame)
run(R, f, rnd) == RunLockPorts(operation(R, f, rnd))

-----------------------------------------------------------------------------
(* The initial grids: what OrcaGrid.from_path loads.                         *)

\* the grids of the specification's scenarios and of the repository's tests,
\* and grids that reach each operator class and each exception
ScenarioGrids ==
    { \* spec scenario 1: a lower-case add pulsed by a BANG
      << << "*", "a", "2" >>,
         << ".", ".", "." >> >>,
      \* spec scenario 2, test_operator.py TestAddOperator
      << << "1", "A", "2" >>,
         << ".", ".", "." >> >>,
      \* spec scenario 3, TestClockOperator
      << << "3", "C", "4" >>,
         << ".", ".", "." >> >>,
      \* spec scenario 4, TestGeneratorOperator
      << << ".", "1", ".", "G", "E" >>,
         << ".", ".", ".", ".", "." >>,
         << ".", ".", ".", ".", "." >> >>,
      \* spec scenario 5, TestIncrementOperator
      << << ".", ".", "I", "4", "." >>,
         << ".", ".", "2", ".", "." >> >>,
      \* spec scenario 6: comment masking
      << << "#", "A", "#", "B" >>,
         << ".", "*", ".", "*" >> >>,
      \* spec scenario 7: MIDI emission
      << << "*", ":", "1", "3", "C", "4" >>,
         << ".", ".", ".", ".", ".", "." >> >>,
      \* scenario 7 with room for the length port
      << << "*", ":", "1", "3", "C", "4", "." >>,
         << ".", ".", ".", ".", ".", ".", "." >> >>,
      \* spec scenario 8: movement
      << << "E", "." >>,
         << ".", "." >> >>,
      \* spec scenario 9: movement into the wall
      << << ".", "E" >> >>,
      \* a clock whose mod is 0
      << << "1", "C", "0" >>,
         << ".", ".", "." >> >>,
      \* a random whose min exceeds its max
      << << "5", "R", "2" >>,
         << ".", ".", "." >> >>,
      \* a random over 1..3
      << << "1", "R", "3" >>,
         << ".", ".", "." >> >>,
      \* two adjacent BANGs
      << << "*", "*", "." >>,
         << ".", ".", "." >> >>,
      \* a generator writing below a later add
      << << "2", ".", "1", "G", "5", "A", "1" >>,
         << ".", ".", ".", ".", ".", ".", "." >> >>,
      \* a comment pulsed by a BANG
      << << "*", "#", "A", "#", "." >>,
         << ".", ".", ".", ".", "." >> >>,
      \* an operator glyph in an input port
      << << "1", "A", "B", "." >>,
         << ".", ".", ".", "." >> >>,
      \* halt above a mover
      << << "H", "." >>,
         << "E", "." >> >>,
      \* delay
      << << "1", "D", "1" >>,
         << ".", ".", "." >> >>,
      \* if, banging onto a lower-case mover
      << << "1", "F", "1", "." >>,
         << ".", "e", ".", "." >> >>,
      \* track
      << << "1", "2", "T", "a", "b" >>,
         << ".", ".", ".", ".", "." >> >>,
      \* west, north and south movers
      << << ".", ".", "W" >>,
         << ".", "N", "." >>,
         << "S", ".", "." >> >>,
      \* TestMultiplyOperator
      << << "2", "M", "3" >>,
         << ".", ".", "." >> >>,
      \* TestSubstractOperator
      << << "1", "B", "4" >>,
         << ".", ".", "." >> >>,
      \* test_operator.py TestBaseOperator.test_has_neighbor
      << << "1", "2", "3" >>,
         << "4", "+", "6" >>,
         << "7", "8", "9" >> >>,
      \* an add whose input is the output cell of an earlier add
      << << "1", "A", "1", "." >>,
         << ".", ".", "A", "1" >>,
         << ".", ".", ".", "." >> >>,
      \* a midi operator in the first column, a BANG in the last
      << << ":", "1", "3", "C", ".", ".", "*" >>,
         << ".", ".", ".", ".", ".", ".", "." >> >>,
      \* a midi operator whose note cell holds no note name
      << << "*", ":", "1", "3", "z", "4", "." >>,
         << ".", ".", ".", ".", ".", ".", "." >> >>,
      \* a midi operator whose channel is 16
      << << "*", ":", "g", "3", "C", ".", "." >>,
         << ".", ".", ".", ".", ".", ".", "." >> >>,
      \* a midi operator without octave, its velocity and length above their clamps
      << << ".", ":", "1", ".", "C", "z", "z" >>,
         << ".", "*", ".", ".", ".", ".", "." >> >>,
      \* a midi operator whose octave, velocity and length are above their clamps
      << << ".", ":", "f", "z", "B", "z", "z" >>,
         << ".", "*", ".", ".", ".", ".", "." >> >>,
      \* increments that wrap around their mod within a few ticks
      << << "2", "I", "4" >>,
         << ".", ".", "." >> >>,
      << << "3", "I", "4" >>,
         << ".", ".", "." >> >>,
      \* an increment in the last column
      << << ".", "I" >>,
         << ".", "." >> >>,
      \* an add with a BANG input, an add whose sum exceeds the table
      << << "*", "A", "2" >>,
         << ".", ".", "." >> >>,
      << << "z", "A", "Z" >>,
         << ".", ".", "." >> >>,
      \* a midi operator without a BANG neighbour, a clock in its note port
      << << ".", ":", "1", "3", "C", ".", "." >>,
         << ".", ".", ".", ".", ".", ".", "." >> >>,
      \* a mover whose destination holds a BANG that has a BANG neighbour
      << << "E", "*", "*" >>,
         << ".", ".", "." >> >> }

\* the largest number of non-DOT cells of a family grid
MaxGlyphs == 2

\* the largest frame number a run reaches
MaxFrame == 3

FamilyBlank == << << ".", ".", "." >>, << ".", ".", "." >> >>

FamilyGlyphs == {"*", "#", "A", "a", "E", "e", "H", "D"}

FamilyCells == {<<r, c>> : r \in DOMAIN FamilyBlank, c \in DOMAIN FamilyBlank[1]}

\* every grid of FamilyBlank's shape with at most MaxGlyphs cells set to a
\* glyph of FamilyGlyphs
FamilyGrids ==
    UNION { { [r \in DOMAIN FamilyBlank |->
                 [c \in DOMAIN FamilyBlank[1] |->
                     IF <<r, c>> \in S THEN f[<<r, c>>] ELSE FamilyBlank[r][c]]] :
              f \in [S -> FamilyGlyphs] } :
            S \in {T \in SUBSET FamilyCells : Cardinality(T) <= MaxGlyphs} }

InitGrids == ScenarioGrids \cup FamilyGrids

-----------------------------------------------------------------------------
(* The evaluator: main's loop and update_grid.  src/scripts/renderer.py *)

\* OrcaGrid.reset_for_frame: clears the locks and the MIDI queue
reset_for_frame(st) == [lk |-> reset_locks(st), ev |-> << >>]

\* an update_grid that does not look at the operator's lock
ShouldRunIgnoringLock(st, lk, operator) ==
    operator.is_passive \/ has_neighbor(st, operator, BANG_GLYPH)

\* update_grid's test in its loop: the operator is run unless its cell is locked,
\* and only if it is passive or has a BANG neighbour
ShouldRun(st, lk, operator) ==
    IF is_locked(lk, operator.x, operator.y) THEN FALSE
    ELSE operator.is_passive \/ has_neighbor(st, operator, BANG_GLYPH)

NoStep == [ran |-> FALSE, locked |-> FALSE, outs |-> << >>, overwrote |-> FALSE,
           payload |-> None]

\* no direct call made yet; n counts the direct calls that changed the grid
NoCall == [fn |-> "", x |-> 0, y |-> 0, value |-> "", ret |-> "", n |-> 0]

\* whether one of the pokes `outs` of _output changes a cell that lk shows locked
Overwrites(st, lk, outs) ==
    \E k \in DOMAIN outs :
        /\ is_inside(st, outs[k].x, outs[k].y)
        /\ is_locked(lk, outs[k].x, outs[k].y)
        /\ peek(st, outs[k].x, outs[k].y) # outs[k].value

InitWith(grids) ==
    /\ state \in grids
    /\ rows = Len(state)
    /\ cols = Len(state[1])
    /\ locks = reset_locks(state)
    /\ midi_events = << >>
    /\ frame = 0
    /\ pc = "idle"
    /\ operators = << >>
    /\ idx = 1
    /\ exc = ""
    /\ considered = << >>
    /\ ran = {}
    /\ moved = {}
    /\ last = NoStep
    /\ stale = [locks |-> FALSE, events |-> FALSE]
    /\ call = NoCall
    /\ _stack = {}
    /\ _stack_off = {}
    /\ sent = << >>
    /\ drains = 0
    /\ tick_start = state
    /\ cursor = [x |-> 0, y |-> 0]
    /\ ticks = 0

Init == InitWith(InitGrids)

\* an update_grid that does not call reset_for_frame
TickBeginWithoutReset ==
    /\ pc = "idle"
    /\ frame < MaxFrame
    /\ frame' = frame + 1
    /\ operators' = parse_grid(state)
    /\ idx' = 1
    /\ pc' = "tick"
    /\ considered' = << >>
    /\ ran' = {}
    /\ moved' = {}
    /\ last' = NoStep
    /\ stale' = [locks |-> \E r \in DOMAIN locks : \E c \in DOMAIN locks[r] : locks[r][c],
                 events |-> midi_events # << >>]
    /\ tick_start' = state
    /\ ticks' = ticks + 1
    /\ UNCHANGED <<appVars, cursor, rows, cols, state, locks, midi_events, exc, call>>

\* main: the space key.  frame += 1, then update_grid up to its for loop:
\* reset_for_frame and parse_grid
TickBegin ==
    /\ pc = "idle"
    /\ frame < MaxFrame
    /\ frame' = frame + 1
    /\ locks' = reset_for_frame(state).lk
    /\ midi_events' = reset_for_frame(state).ev
    /\ operators' = parse_grid(state)
    /\ idx' = 1
    /\ pc' = "tick"
    /\ considered' = << >>
    /\ ran' = {}
    /\ moved' = {}
    /\ last' = NoStep
    /\ stale' = [locks |-> \E r \in DOMAIN locks : \E c \in DOMAIN locks[r] : locks[r][c],
                 events |-> midi_events # << >>]
    /\ tick_start' = state
    /\ ticks' = ticks + 1
    /\ UNCHANGED <<appVars, cursor, rows, cols, state, exc, call>>

\* one iteration of update_grid's for loop; R is the outcome of operator.run, or
\* the grid as it was when the operator is skipped
Consider ==
    /\ pc = "tick"
    /\ idx <= Len(operators)
    /\ \E go \in {ShouldRun(state, locks, operators[idx])} :
       \E rnd \in RandomChoices(state, operators[idx]) :
       \E R \in {IF go
                 THEN run(Call(state, locks, midi_events, operators[idx]), frame, rnd)
                 ELSE Call(state, locks, midi_events, operators[idx])} :
           /\ state' = R.st
           /\ locks' = R.lk
           /\ midi_events' = R.ev
           /\ operators' = [operators EXCEPT ![idx] = R.op]
           /\ exc' = R.exc
           /\ pc' = IF R.exc # "" THEN "crashed" ELSE "tick"
           /\ idx' = idx + 1
           /\ considered' = Append(considered, <<operators[idx].x, operators[idx].y>>)
           /\ ran' = IF go THEN ran \cup {idx} ELSE ran
           /\ moved' = IF R.op.x # operators[idx].x \/ R.op.y # operators[idx].y
                       THEN moved \cup {idx} ELSE moved
           /\ last' = [ran |-> go,
                        locked |-> is_locked(locks, operators[idx].x, operators[idx].y),
                        outs |-> R.outs,
                        overwrote |-> Overwrites(state, locks, R.outs),
                        payload |-> R.payload]
    /\ UNCHANGED <<appVars, cursor, ticks, tick_start, rows, cols, frame, stale, call>>

\* update_grid's for loop is exhausted: back to main's getch
TickEnd ==
    /\ pc = "tick"
    /\ idx > Len(operators)
    /\ pc' = "idle"
    /\ UNCHANGED <<appVars, cursor, ticks, tick_start, rows, cols, state, locks, midi_events, frame, operators, idx, exc,
                   considered, ran, moved, last, stale, call>>

Next == TickBegin \/ Consider \/ TickEnd

Spec == Init /\ [][Next]_vars

\* main's loop takes the frame-advance key: the step of TickBegin, by what it
\* does to the frame counter
FrameAdvances == pc = "idle" /\ frame < MaxFrame /\ frame' = frame + 1

\* update_grid's for loop takes its next operator: the step of Consider, by
\* what it does to the loop's position
LoopAdvances == pc = "tick" /\ idx <= Len(operators) /\ idx' = idx + 1

\* The ticks under fairness: main's loop (renderer.py:258-262) runs update_grid
\* on every frame-advance key, and update_grid's for loop (renderer.py:180-193)
\* runs to its end once begun.
SpecLive ==
    Init /\ [][Next]_vars
        /\ WF_frame(FrameAdvances) /\ WF_idx(LoopAdvances) /\ WF_vars(TickEnd)

-----------------------------------------------------------------------------
(* main's other keys: the cursor and the cell edits.  src/scripts/renderer.py *)

\* Cursor._move_relative(x, y), the cursor's width and height being the grid's
_move_relative(cur, x, y, width, height) ==
    [x |-> IF cur.x + x > width - 1
           THEN (IF width - 1 < 0 THEN 0 ELSE width - 1)
           ELSE (IF cur.x + x < 0 THEN 0 ELSE cur.x + x),
     y |-> IF cur.y + y > height - 1
           THEN (IF height - 1 < 0 THEN 0 ELSE height - 1)
           ELSE (IF cur.y + y < 0 THEN 0 ELSE cur.y + y)]

\* the offsets of move_up, move_down, move_left and move_right
ArrowKeys == {<<0, -1>>, <<0, 1>>, <<-1, 0>>, <<1, 0>>}

\* main: an arrow key
CursorMove ==
    /\ pc = "idle"
    /\ \E k \in ArrowKeys : cursor' = _move_relative(cursor, k[1], k[2], cols, rows)
    /\ UNCHANGED <<appVars, ticks, tick_start, rows, cols, state, locks, midi_events, frame,
                   pc, operators, idx, exc, considered, ran, moved, last, stale, call>>

\* the largest number of cell edits in a run
MaxEdits == 1

\* the characters typed into a cell
EditGlyphs == {"E", DOT_GLYPH}

\* main: any other key, grid.poke(cursor.x, cursor.y, chr(k))
EditCell ==
    /\ pc = "idle"
    /\ call.n < MaxEdits
    /\ \E g \in EditGlyphs :
           /\ state' = poke(state, cursor.x, cursor.y, g)
           /\ call' = [fn |-> "edit", x |-> cursor.x, y |-> cursor.y, value |-> g,
                       ret |-> "", n |-> call.n + 1]
    /\ UNCHANGED <<appVars, cursor, ticks, tick_start, rows, cols, locks, midi_events, frame,
                   pc, operators, idx, exc, considered, ran, moved, last, stale>>

\* the grids main is started on: a blank one, a mover, a clock
MainGrids ==
    { FamilyBlank,
      << << "E", "." >>,
         << ".", "." >> >>,
      << << "3", "C", "4" >>,
         << ".", ".", "." >> >> }

InitMain == InitWith(MainGrids)

\* main's while loop: one key per iteration
NextMain == TickBegin \/ Consider \/ TickEnd \/ CursorMove \/ EditCell

SpecMain == InitMain /\ [][NextMain]_vars

-----------------------------------------------------------------------------
(* Direct calls of the grid's methods, as the tests and the renderer make    *)
(* them between ticks.                                                       *)

\* how far outside the grid the coordinates of a direct call reach
Margin == 2

Coords(n) == (0 - n - Margin)..(n + Margin)

\* grid.peek(x, y)
PeekCall ==
    /\ pc = "idle"
    /\ \E x \in Coords(cols), y \in Coords(rows) :
           call' = [fn |-> "peek", x |-> x, y |-> y, value |-> "",
                    ret |-> peek(state, x, y), n |-> call.n]
    /\ UNCHANGED <<appVars, cursor, ticks, tick_start, rows, cols, state, locks, midi_events, frame, pc, operators, idx,
                   exc, considered, ran, moved, last, stale>>

InitGrid == InitWith(ScenarioGrids)

NextGrid == PeekCall

SpecGrid == InitGrid /\ [][NextGrid]_vars

\* the largest number of direct calls that change the grid
MaxCalls == 1

\* the glyphs given to poke
PokeGlyphs == {BANG_GLYPH, "5"}

\* grid.poke(x, y, value)
PokeCall ==
    /\ pc = "idle"
    /\ call.n < MaxCalls
    /\ \E x \in Coords(cols), y \in Coords(rows), value \in PokeGlyphs :
           /\ state' = poke(state, x, y, value)
           /\ call' = [fn |-> "poke", x |-> x, y |-> y, value |-> value,
                       ret |-> "", n |-> call.n + 1]
    /\ UNCHANGED <<appVars, cursor, ticks, tick_start, rows, cols, locks, midi_events, frame, pc, operators, idx,
                   exc, considered, ran, moved, last, stale>>

NextPoke == PokeCall

SpecPoke == InitGrid /\ [][NextPoke]_vars

\* the glyphs on the grid st
GlyphsOn(st) == {st[r][c] : r \in DOMAIN st, c \in DOMAIN st[1]}

\* op.has_neighbor(glyph) for an operator object bound to the cell (x, y)
HasNeighborCall ==
    /\ pc = "idle"
    /\ \E x \in 0..(cols - 1), y \in 0..(rows - 1), glyph \in GlyphsOn(state) :
           call' = [fn |-> "has_neighbor", x |-> x, y |-> y, value |-> glyph,
                    ret |-> has_neighbor(state, [x |-> x, y |-> y], glyph), n |-> call.n]
    /\ UNCHANGED <<appVars, cursor, ticks, tick_start, rows, cols, state, locks, midi_events, frame, pc, operators,
                   idx, exc, considered, ran, moved, last, stale>>

NextNeighbor == HasNeighborCall

SpecNeighbor == InitGrid /\ [][NextNeighbor]_vars

\* the defaults ("" for none) and the clamps of the ports given to listen
ListenDefaults == {"", "+", "8"}

ListenClamps == {"default_clamp", "max(1, x)"}

\* grid.listen(port)
ListenCall ==
    /\ pc = "idle"
    /\ \E x \in Coords(cols), y \in Coords(rows), default \in ListenDefaults :
           call' = [fn |-> "listen", x |-> x, y |-> y,
                    value |-> InputPort("port", x, y, "default_clamp", default),
                    ret |-> listen(state, InputPort("port", x, y, "default_clamp", default)),
                    n |-> call.n]
    /\ UNCHANGED <<appVars, cursor, ticks, tick_start, rows, cols, state, locks, midi_events, frame, pc, operators,
                   idx, exc, considered, ran, moved, last, stale>>

\* grid.listen_as_value(port)
ListenAsValueCall ==
    /\ pc = "idle"
    /\ \E x \in Coords(cols), y \in Coords(rows), default \in ListenDefaults,
          clamp \in ListenClamps :
           call' = [fn |-> "listen_as_value", x |-> x, y |-> y,
                    value |-> InputPort("port", x, y, clamp, default),
                    ret |-> listen_as_value(state, InputPort("port", x, y, clamp, default)),
                    n |-> call.n]
    /\ UNCHANGED <<appVars, cursor, ticks, tick_start, rows, cols, state, locks, midi_events, frame, pc, operators,
                   idx, exc, considered, ran, moved, last, stale>>

NextListen == ListenCall \/ ListenAsValueCall

\* the grid of TestGridListen (src/tests/test_orca_grid.py) and a one-row grid
ListenGrids ==
    { << << ".", "A", "." >>,
         << "*", ".", "c" >> >>,
      << << ".", "E" >> >> }

InitListen == InitWith(ListenGrids)

SpecListen == InitListen /\ [][NextListen]_vars

\* the indices given to key_of reach from -MaxIndex to MaxIndex
MaxIndex == 75

\* grid.key_of(index, upper_case)
KeyOfCall ==
    /\ pc = "idle"
    /\ \E index \in (0 - MaxIndex)..MaxIndex, upper_case \in BOOLEAN :
           call' = [fn |-> "key_of", x |-> index, y |-> 0, value |-> upper_case,
                    ret |-> key_of(index, upper_case), n |-> call.n]
    /\ UNCHANGED <<appVars, cursor, ticks, tick_start, rows, cols, state, locks, midi_events, frame, pc, operators,
                   idx, exc, considered, ran, moved, last, stale>>

\* the glyphs given to value_of: the alphabet in both cases, DOT, BANG, None
CodecGlyphs ==
    {GLYPH_TABLE[i] : i \in 1..GLYPH_TABLE_SIZE}
        \cup {upper(GLYPH_TABLE[i]) : i \in 1..GLYPH_TABLE_SIZE}
        \cup {DOT_GLYPH, BANG_GLYPH, None}

\* grid.value_of(g)
ValueOfCall ==
    /\ pc = "idle"
    /\ \E g \in CodecGlyphs :
           call' = [fn |-> "value_of", x |-> 0, y |-> 0, value |-> g,
                    ret |-> value_of(g), n |-> call.n]
    /\ UNCHANGED <<appVars, cursor, ticks, tick_start, rows, cols, state, locks, midi_events, frame, pc, operators,
                   idx, exc, considered, ran, moved, last, stale>>

InitCodec == InitWith({FamilyBlank})

NextCodec == KeyOfCall \/ ValueOfCall

SpecCodec == InitCodec /\ [][NextCodec]_vars

-----------------------------------------------------------------------------
(* Loading a grid: OrcaGrid.from_string of src/src/orca/grid.py.  A string is *)
(* a sequence of one-character strings, "\n" the newline.                     *)

\* the largest number of lines from_string accepts
MAX_LINES == 200

\* the largest length of a string drawn character by character
MaxLen == 4

\* the pieces of two adjacent parts of a string, joined: the last piece of the
\* left part and the first piece of the right part are one piece
JoinPieces(left, right) ==
    SubSeq(left, 1, Len(left) - 1) \o <<left[Len(left)] \o right[1]>> \o Tail(right)

\* the pieces into which the "\n" of s[lo..hi] cut that part of the string
RECURSIVE Pieces(_, _, _)
Pieces(s, lo, hi) ==
    IF lo = hi
    THEN (IF s[lo] = "\n" THEN << << >>, << >> >> ELSE << <<s[lo]>> >>)
    ELSE JoinPieces(Pieces(s, lo, (lo + hi) \div 2), Pieces(s, (lo + hi) \div 2 + 1, hi))

\* the pieces without the empty piece after a final "\n"
WithoutFinalEmpty(pieces) ==
    IF pieces[Len(pieces)] = << >> THEN SubSeq(pieces, 1, Len(pieces) - 1) ELSE pieces

\* str.splitlines on a string whose only line boundary is "\n"
splitlines(s) ==
    IF s = << >> THEN << >> ELSE WithoutFinalEmpty(Pieces(s, 1, Len(s)))

\* a from_string that does not compare the lengths of the lines
FromLinesUnchecked(lines) ==
    IF Len(lines) > MAX_LINES THEN [exc |-> "ValueError", rows |-> 0, cols |-> 0, state |-> << >>]
    ELSE IF Len(lines) < 1 THEN [exc |-> "ValueError", rows |-> 0, cols |-> 0, state |-> << >>]
    ELSE [exc |-> "", rows |-> Len(lines), cols |-> Len(lines[1]), state |-> lines]

\* from_string after its call of splitlines: the exception raised, or the
\* rows, cols and _state of the grid returned
FromLines(lines) ==
    IF Len(lines) > MAX_LINES THEN [exc |-> "ValueError", rows |-> 0, cols |-> 0, state |-> << >>]
    ELSE IF Len(lines) < 1 THEN [exc |-> "ValueError", rows |-> 0, cols |-> 0, state |-> << >>]
    ELSE IF \E i \in DOMAIN lines : Len(lines[i]) # Len(lines[1])
    THEN [exc |-> "ValueError", rows |-> 0, cols |-> 0, state |-> << >>]
    ELSE [exc |-> "", rows |-> Len(lines), cols |-> Len(lines[1]), state |-> lines]

from_string(s) == FromLines(splitlines(s))

\* the string of k lines, each the sequence line, joined by "\n"
JoinedLines(line, k) ==
    [i \in 1..(k * (Len(line) + 1) - 1) |->
        IF i % (Len(line) + 1) = 0 THEN "\n" ELSE line[i % (Len(line) + 1)]]

\* the strings given to from_string: every string of at most MaxLen characters
\* of a small alphabet, and strings with about MAX_LINES lines
LoadInputs ==
    UNION {[1..n -> {DOT_GLYPH, "A", "\n"}] : n \in 0..MaxLen}
    \cup {JoinedLines(line, k) : line \in {<<DOT_GLYPH>>, <<"1", "A", "2">>},
                                 k \in {MAX_LINES - 1, MAX_LINES, MAX_LINES + 1}}

\* OrcaGrid.from_string(s)
FromStringCall ==
    /\ pc = "idle"
    /\ \E s \in LoadInputs :
           call' = [fn |-> "from_string", x |-> 0, y |-> 0, value |-> s,
                    ret |-> from_string(s), n |-> call.n]
    /\ UNCHANGED <<appVars, cursor, ticks, tick_start, rows, cols, state, locks, midi_events, frame, pc,
                   operators, idx, exc, considered, ran, moved, last, stale>>

InitLoad == InitWith({FamilyBlank})

NextLoad == FromStringCall

SpecLoad == InitLoad /\ [][NextLoad]_vars

-----------------------------------------------------------------------------
(* The MIDI sink: class App of src/src/orca/midi.py.  A note is the triple    *)
(* (channel, note, velocity) given to push_note; a message is the list given  *)
(* to send_message, kept with the triple it was built from and the number of  *)
(* the run_midi call that sent it.                                            *)

\* the largest number of run_midi calls
MaxDrains == 3

\* the notes given to push_note
PushNotes == {<<0, 60, 100>>, <<15, 62, 90>>}

\* the orders in which a for loop may iterate over the set S
Orderings(S) ==
    {f \in [1..Cardinality(S) -> S] : \A i, j \in DOMAIN f : i # j => f[i] # f[j]}

\* the message [0x90 + channel, note, velocity]
NoteOn(t) == [status |-> 144 + t[1], note |-> t[2], velocity |-> t[3]]

\* a note-off sent with the status of a note-on
NoteOffWithNoteOnStatus(t) == [status |-> 144 + t[1], note |-> t[2], velocity |-> t[3]]

\* the message [0x80 + channel, note, velocity]
NoteOff(t) == [status |-> 128 + t[1], note |-> t[2], velocity |-> t[3]]

\* the send_message calls of one run_midi, the note-ons first
WireOnsFirst(offs, ons, d) ==
    [k \in DOMAIN ons |-> [msg |-> NoteOn(ons[k]), triple |-> ons[k], drain |-> d]]
    \o [k \in DOMAIN offs |-> [msg |-> NoteOff(offs[k]), triple |-> offs[k], drain |-> d]]

\* the send_message calls of one run_midi: its first loop iterates over
\* _stack_off in the order offs, its second over _stack in the order ons
Wire(offs, ons, d) ==
    [k \in DOMAIN offs |-> [msg |-> NoteOff(offs[k]), triple |-> offs[k], drain |-> d]]
    \o [k \in DOMAIN ons |-> [msg |-> NoteOn(ons[k]), triple |-> ons[k], drain |-> d]]

\* App.push_note(channel, note, velocity)
PushNote ==
    /\ \E t \in PushNotes : _stack' = _stack \cup {t}
    /\ UNCHANGED <<tick_start, rows, cols, state, locks, midi_events, frame, pc, operators,
                   idx, exc,
                   considered, ran, moved, last, stale, call, _stack_off, sent, drains,
                   cursor, ticks>>

\* a run_midi that does not empty _stack_off before it adds to it
RunMidiKeepingOff ==
    /\ drains < MaxDrains
    /\ \E offs \in Orderings(_stack_off), ons \in Orderings(_stack) :
           sent' = sent \o Wire(offs, ons, drains + 1)
    /\ _stack_off' = _stack_off \cup _stack
    /\ _stack' = {}
    /\ drains' = drains + 1
    /\ UNCHANGED <<tick_start, rows, cols, state, locks, midi_events, frame, pc, operators,
                   idx, exc,
                   considered, ran, moved, last, stale, call, cursor, ticks>>

\* App.run_midi()
RunMidi ==
    /\ drains < MaxDrains
    /\ \E offs \in Orderings(_stack_off), ons \in Orderings(_stack) :
           sent' = sent \o Wire(offs, ons, drains + 1)
    /\ _stack_off' = _stack
    /\ _stack' = {}
    /\ drains' = drains + 1
    /\ UNCHANGED <<tick_start, rows, cols, state, locks, midi_events, frame, pc, operators,
                   idx, exc,
                   considered, ran, moved, last, stale, call, cursor, ticks>>

InitMidi == InitWith({FamilyBlank})

NextMidi == PushNote \/ RunMidi

SpecMidi == InitMidi /\ [][NextMidi]_vars

-----------------------------------------------------------------------------
(* The claims *)

AnyLocked == \E r \in DOMAIN locks : \E c \in DOMAIN locks[r] : locks[r][c]

\* whether update_grid's loop stands before an operator
AtOperator == pc = "tick" /\ idx <= Len(operators)

\* whether one of the four orthogonal neighbour cells of (x, y) holds BANG
BangNeighbourCell(st, x, y) ==
    \E d \in {<<-1, 0>>, <<1, 0>>, <<0, -1>>, <<0, 1>>} :
        /\ is_inside(st, x + d[1], y + d[2])
        /\ st[y + d[2] + 1][x + d[1] + 1] = BANG_GLYPH

RowMajorBefore(p, q) == p[2] < q[2] \/ (p[2] = q[2] /\ p[1] < q[1])

\* the columns a comment at (x, y) masks: from x up to and including the next
\* COMMENT_GLYPH of the row, or up to the end of the row
CommentSpan(st, x, y) ==
    {c \in x..(Len(st[1]) - 1) :
        \A c2 \in (x + 1)..(c - 1) : st[y + 1][c2 + 1] # COMMENT_GLYPH}

\* C1: no tick raises an exception: whatever the grid and the frame, an operator
\* whose operation would fail is a no-op and the tick goes on.
NoTickRaises == pc # "crashed" /\ exc = ""

\* C2: at the start of every tick, before any operator is looked at, every cell is
\* unlocked and the MIDI queue is empty, whatever the previous ticks left.
TickStartsUnlockedAndEmpty ==
    (pc = "tick" /\ idx = 1) => (~AnyLocked /\ midi_events = << >>)

\* C2, its case: a tick starts after a tick that left locks and events behind
TickStartsAfterStaleTick ==
    pc = "tick" /\ idx = 1 /\ frame >= 2 /\ stale.locks /\ stale.events

\* C3: an operator whose cell is locked when the loop reaches it is not executed:
\* it writes no cell, sets no lock and pushes no MIDI event.
LockedOperatorNotExecuted ==
    [][(AtOperator /\ is_locked(locks, operators[idx].x, operators[idx].y))
       => (/\ state' = state
           /\ locks' = locks
           /\ midi_events' = midi_events
           /\ idx \notin ran')]_vars

\* C3, its case: the loop has just passed an operator whose cell was locked, while
\* other operators of the tick did run
LockedOperatorPassed ==
    pc = "tick" /\ last.locked /\ ~last.ran /\ ran # {} /\ idx - 1 \notin ran

\* C4: an unlocked operator with an upper-case letter is executed; one with a
\* lower-case letter is executed if and only if one of its four orthogonal
\* neighbour cells holds BANG when it is considered.
ActivationRule ==
    [][(/\ AtOperator
        /\ ~is_locked(locks, operators[idx].x, operators[idx].y)
        /\ operators[idx].klass \notin {"Bang", "Midi", "Comment"})
       => ((idx \in ran') <=>
              (\/ operators[idx].is_passive
               \/ BangNeighbourCell(state, operators[idx].x, operators[idx].y)))]_vars

\* C5: within a tick the operators are considered strictly in row-major order, so
\* each at most once.
ConsideredInRowMajorOrder ==
    \A j \in DOMAIN considered : \A k \in DOMAIN considered :
        j < k => RowMajorBefore(considered[j], considered[k])

\* C5, its case: a tick has considered operators of one row and of two rows
ConsideredTwoRows ==
    /\ pc = "idle"
    /\ \E j \in DOMAIN considered : \E k \in DOMAIN considered :
           considered[j][2] < considered[k][2]
    /\ \E j \in DOMAIN considered : \E k \in DOMAIN considered :
           considered[j][2] = considered[k][2] /\ considered[j][1] < considered[k][1]

\* C6: at the end of every tick, every operator that ran in it and did not move
\* has its own cell locked.
RanOperatorLockedOwnCell ==
    pc = "idle" =>
        \A i \in ran \ moved : is_locked(locks, operators[i].x, operators[i].y)

\* C6 as amended: at the end of every tick, every operator that ran in it has
\* locked the cell of each of its ports inside the grid, a bang output port
\* excepted, and an operator that moved has locked the cell it moved to; run does
\* not lock the operator's own cell.
RanOperatorLockedItsPorts ==
    pc = "idle" =>
        \A i \in ran :
            /\ \A k \in DOMAIN operators[i].ports :
                   LET port == operators[i].ports[k]
                   IN  (~(port.is_output /\ port.is_bang) /\ is_inside(state, port.x, port.y))
                       => locks[port.y + 1][port.x + 1]
            /\ i \in moved => locks[operators[i].y + 1][operators[i].x + 1]

\* C6, its case: a tick has ended in which an operator with ports inside the grid
\* ran, did not move, and its own cell is not locked
RanOperatorOwnCellUnlocked ==
    /\ pc = "idle"
    /\ \E i \in ran \ moved :
           /\ ~is_locked(locks, operators[i].x, operators[i].y)
           /\ \E k \in DOMAIN operators[i].ports :
                  /\ ~(operators[i].ports[k].is_output /\ operators[i].ports[k].is_bang)
                  /\ is_inside(state, operators[i].ports[k].x, operators[i].ports[k].y)

\* C7: once a cell is locked during a tick, no operator's normal output (_output
\* of a glyph payload) changes the glyph of that cell for the rest of the tick.
OutputNeverChangesLockedCell ==
    [][pc = "tick" =>
         \A k \in DOMAIN last'.outs :
             (/\ is_inside(state, last'.outs[k].x, last'.outs[k].y)
              /\ locks[last'.outs[k].y + 1][last'.outs[k].x + 1])
             => state'[last'.outs[k].y + 1][last'.outs[k].x + 1]
                = state[last'.outs[k].y + 1][last'.outs[k].x + 1]]_vars

\* C7 as amended: once a cell is locked during a tick it stays locked for the rest
\* of the tick, but the lock does not protect its glyph: every glyph payload that
\* _output sends to a port inside the grid is written there, whether or not the
\* cell is locked.
LockPersistsButOutputLands ==
    [][pc = "tick" =>
         /\ \A r \in DOMAIN locks : \A c \in DOMAIN locks[r] : locks[r][c] => locks'[r][c]
         /\ \A k \in DOMAIN last'.outs :
                (/\ is_inside(state', last'.outs[k].x, last'.outs[k].y)
                 /\ \A k2 \in DOMAIN last'.outs :
                        (k2 > k) => (last'.outs[k2].x # last'.outs[k].x
                                     \/ last'.outs[k2].y # last'.outs[k].y))
                => state'[last'.outs[k].y + 1][last'.outs[k].x + 1] = last'.outs[k].value]_vars

\* C7, its case: an operator's _output has just changed the glyph of a cell that
\* an earlier operator of the tick had locked
OutputChangedLockedCell == pc = "tick" /\ last.ran /\ last.overwrote

\* C8: every BANG that is on the grid when a tick starts and is not locked when the
\* loop reaches it is erased by that tick, with or without another BANG next to it.
BangErasedWhenReached ==
    [][(/\ AtOperator
        /\ operators[idx].klass = "Bang"
        /\ ~is_locked(locks, operators[idx].x, operators[idx].y)
        /\ peek(state, operators[idx].x, operators[idx].y) = BANG_GLYPH)
       => peek(state', operators[idx].x, operators[idx].y) = DOT_GLYPH]_vars

\* C9: every unlocked COMMENT_GLYPH locks its own cell and every cell to its right
\* up to and including the next COMMENT_GLYPH of the row (or the end of the row),
\* and needs no BANG neighbour to do so.
CommentLocksItsSpan ==
    [][(/\ AtOperator
        /\ operators[idx].klass = "Comment"
        /\ ~is_locked(locks, operators[idx].x, operators[idx].y)
        /\ peek(state, operators[idx].x, operators[idx].y) = COMMENT_GLYPH)
       => \A c \in CommentSpan(state, operators[idx].x, operators[idx].y) :
              locks'[operators[idx].y + 1][c + 1]]_vars

\* C10: peek(x, y) returns the absent sentinel for every coordinate outside the
\* grid, negative coordinates included, and the stored glyph for every coordinate
\* inside it.
PeekOutsideIsAbsent ==
    call.fn = "peek" =>
        call.ret = IF is_inside(state, call.x, call.y)
                   THEN state[call.y + 1][call.x + 1]
                   ELSE None

\* C11: poke(x, y, g) with (x, y) outside the grid, negative coordinates
\* included, changes no cell and raises nothing; poke inside the grid changes
\* exactly the cell (x, y) and leaves rows, cols and every other cell unchanged.
PokeChangesExactlyItsCell ==
    [][(call'.fn = "poke" /\ call'.n = call.n + 1)
       => (/\ exc' = ""
           /\ rows' = rows
           /\ cols' = cols
           /\ state' = IF is_inside(state, call'.x, call'.y)
                       THEN [state EXCEPT ![call'.y + 1][call'.x + 1] = call'.value]
                       ELSE state)]_vars

\* the offset by which an operator of the class klass moves
MoveOffset(klass) ==
    CASE klass = "East" -> <<1, 0>>
      [] klass = "West" -> <<-1, 0>>
      [] klass = "North" -> <<0, -1>>
      [] klass = "South" -> <<0, 1>>

Movers == {"East", "West", "North", "South"}

\* C12: move(dx, dy) of an operator at (x, y): if (x+dx, y+dy) is outside the grid
\* or holds a glyph that is neither DOT nor BANG, the operator's own cell becomes
\* BANG and no other cell or lock changes; otherwise the origin cell becomes DOT,
\* the destination cell holds the operator's glyph and the destination is locked.
MoveExplodesOrMoves ==
    [][(AtOperator /\ operators[idx].klass \in Movers /\ idx \in ran')
       => LET x == operators[idx].x
              y == operators[idx].y
              nx == x + MoveOffset(operators[idx].klass)[1]
              ny == y + MoveOffset(operators[idx].klass)[2]
          IN  IF \/ ~is_inside(state, nx, ny)
                 \/ state[ny + 1][nx + 1] \notin {DOT_GLYPH, BANG_GLYPH}
              THEN /\ state' = [state EXCEPT ![y + 1][x + 1] = BANG_GLYPH]
                   /\ locks' = locks
              ELSE /\ state'[y + 1][x + 1] = DOT_GLYPH
                   /\ state'[ny + 1][nx + 1] = operators[idx].glyph
                   /\ locks'[ny + 1][nx + 1]]_vars

\* C12, its case: a tick has ended in which one mover moved, one exploded against
\* the edge of the grid and one exploded against a glyph
MoversMovedAndExploded ==
    /\ pc = "idle"
    /\ \E i \in moved : operators[i].klass \in Movers
    /\ \E j \in ran \ moved :
           /\ operators[j].klass \in Movers
           /\ state[operators[j].y + 1][operators[j].x + 1] = BANG_GLYPH
           /\ ~is_inside(state, operators[j].x + MoveOffset(operators[j].klass)[1],
                                operators[j].y + MoveOffset(operators[j].klass)[2])
    /\ \E j \in ran \ moved :
           /\ operators[j].klass \in Movers
           /\ state[operators[j].y + 1][operators[j].x + 1] = BANG_GLYPH
           /\ is_inside(state, operators[j].x + MoveOffset(operators[j].klass)[1],
                               operators[j].y + MoveOffset(operators[j].klass)[2])

\* the classes whose output port is sensitive
SensitiveClasses == {"Add", "Substract", "Multiply", "Random", "Clock", "Increment"}

\* the grid st with every letter in lower case
LowerGrid(st) == [r \in DOMAIN st |-> [c \in DOMAIN st[r] |-> lower(st[r][c])]]

\* whether the glyph g is a letter in upper case
UpperLetter(g) == g # None /\ lower(g) # g

\* C13: for an operator whose output port is sensitive, the glyph written to the
\* output cell is the upper-case form of operation's payload if and only if the
\* glyph at (x+1, y) is a letter in upper case; in every other case (digit, DOT,
\* BANG, lower-case letter, no cell) the payload is written as produced; and the
\* payload does not depend on the case of the operator's inputs.
SensitivityRule ==
    [][(/\ AtOperator
        /\ operators[idx].klass \in SensitiveClasses
        /\ idx \in ran'
        /\ last'.payload # None
        /\ is_inside(state, operators[idx].x, operators[idx].y + 1))
       => LET x == operators[idx].x
              y == operators[idx].y
              right == IF is_inside(state, x + 1, y) THEN state[y + 1][x + 2] ELSE None
          IN  /\ state'[y + 2][x + 1] = IF UpperLetter(right)
                                        THEN upper(last'.payload)
                                        ELSE last'.payload
              /\ IF operators[idx].klass = "Random"
                 THEN \E rnd \in RandomChoices(LowerGrid(state), operators[idx]) :
                          last'.payload = key_of(rnd, FALSE)
                 ELSE last'.payload =
                          operation(Call(LowerGrid(state), locks, midi_events,
                                         operators[idx]), frame, 0).payload]_vars

\* the glyph of the cell k columns right of (x, y), None when there is no cell
CellRight(st, x, y, k) ==
    IF is_inside(st, x + k, y) THEN st[y + 1][x + k + 1] ELSE None

Min(a, b) == IF a < b THEN a ELSE b

\* the event the five cells right of a midi operator at (x, y) describe
EventRightOf(st, x, y) ==
    [channel |-> value_of(CellRight(st, x, y, 1)),
     octave |-> Min(value_of(CellRight(st, x, y, 2)), 8),
     note |-> CellRight(st, x, y, 3),
     velocity |-> IF CellRight(st, x, y, 4) \in {DOT_GLYPH, BANG_GLYPH}
                  THEN Min(value_of("f"), 16)
                  ELSE Min(value_of(CellRight(st, x, y, 4)), 16),
     length |-> Min(value_of(CellRight(st, x, y, 5)), 32)]

\* C14: a midi operator that executes pushes exactly one MidiNoteOnEvent(channel,
\* octave, note glyph, velocity, length) if it has a BANG among its four orthogonal
\* neighbours, none of its channel, octave and note cells reads as DOT, and
\* value(channel) <= 15; in every other case it pushes no event.  Velocity
\* defaults to 'f' clamped to 0..16 and a missing length reads as 0.
MidiPushesOneEventWhenBanged ==
    [][(AtOperator /\ operators[idx].klass = "Midi" /\ idx \in ran')
       => LET x == operators[idx].x
              y == operators[idx].y
          IN  midi_events' =
                  IF /\ BangNeighbourCell(state, x, y)
                     /\ \A k \in 1..3 : CellRight(state, x, y, k) # DOT_GLYPH
                     /\ value_of(CellRight(state, x, y, 1)) <= 15
                  THEN Append(midi_events, EventRightOf(state, x, y))
                  ELSE midi_events]_vars

_NOTES_VALUES == {"C", "c", "D", "d", "E", "F", "f", "G", "g", "A", "a", "B"}

\* C15: every event on the grid's MIDI queue has channel in 0..15, octave in 0..8,
\* a note glyph of _NOTES_VALUES, velocity in 0..16 and length in 0..32, whatever
\* glyphs stand in the five cells right of the midi operator.
QueuedEventsAreWellFormed ==
    \A k \in DOMAIN midi_events :
        /\ midi_events[k].channel \in 0..15
        /\ midi_events[k].octave \in 0..8
        /\ midi_events[k].note \in _NOTES_VALUES
        /\ midi_events[k].velocity \in 0..16
        /\ midi_events[k].length \in 0..32

\* the bitwise or of two naturals
RECURSIVE BitOr(_, _)
BitOr(a, b) ==
    IF a = 0 THEN b
    ELSE IF b = 0 THEN a
    ELSE (IF a % 2 = 1 \/ b % 2 = 1 THEN 1 ELSE 0) + 2 * BitOr(a \div 2, b \div 2)

\* whether the k-th message sent is a note-on (status 0x9n) or a note-off (0x8n)
IsNoteOn(k) == sent[k].msg.status \div 16 = 9

IsNoteOff(k) == sent[k].msg.status \div 16 = 8

\* C16: all note-off messages for the notes turned on at drain N are sent before
\* any note-on message of drain N+1, and within one drain every note-off is sent
\* before every note-on.
NoteOffsBeforeNoteOns ==
    \A i \in DOMAIN sent : \A j \in DOMAIN sent :
        /\ (IsNoteOff(i) /\ IsNoteOn(j) /\ sent[i].drain = sent[j].drain) => i < j
        /\ (/\ IsNoteOn(i)
            /\ IsNoteOn(j)
            /\ sent[j].drain = sent[i].drain + 1)
           => \E k \in DOMAIN sent :
                  /\ IsNoteOff(k)
                  /\ sent[k].triple = sent[i].triple
                  /\ sent[k].drain = sent[j].drain
                  /\ i < k
                  /\ k < j

\* C16, its case: a drain turned two notes on, the next drain turned them off and
\* turned two notes on again
TwoDrainsWithNotes ==
    /\ drains >= 2
    /\ Cardinality({k \in DOMAIN sent : IsNoteOn(k) /\ sent[k].drain = 1}) = 2
    /\ Cardinality({k \in DOMAIN sent : IsNoteOff(k) /\ sent[k].drain = 2}) = 2
    /\ Cardinality({k \in DOMAIN sent : IsNoteOn(k) /\ sent[k].drain = 2}) = 2

\* C17: every note-on (status 0x90|channel, note, velocity) sent at drain N is
\* followed by exactly one note-off (status 0x80|channel, same note and velocity)
\* sent at drain N+1; no note-off is ever sent for a triple that was not sent as
\* note-on at the previous drain, so no note stays on after two consecutive drains
\* without a push.
NoteOnPairedWithNoteOff ==
    /\ \A i \in DOMAIN sent :
           IsNoteOn(i) =>
               /\ sent[i].msg = [status |-> BitOr(144, sent[i].triple[1]),
                                 note |-> sent[i].triple[2],
                                 velocity |-> sent[i].triple[3]]
               /\ drains > sent[i].drain =>
                      Cardinality({k \in DOMAIN sent :
                          /\ k > i
                          /\ sent[k].drain = sent[i].drain + 1
                          /\ sent[k].msg = [status |-> BitOr(128, sent[i].triple[1]),
                                            note |-> sent[i].msg.note,
                                            velocity |-> sent[i].msg.velocity]}) = 1
    /\ \A k \in DOMAIN sent :
           IsNoteOff(k) =>
               \E i \in DOMAIN sent :
                   /\ i < k
                   /\ IsNoteOn(i)
                   /\ sent[i].drain + 1 = sent[k].drain
                   /\ sent[i].triple = sent[k].triple
    /\ \A k \in DOMAIN sent : IsNoteOn(k) \/ IsNoteOff(k)
    /\ _stack_off = {sent[k].triple : k \in {i \in DOMAIN sent :
                                             IsNoteOn(i) /\ sent[i].drain = drains}}

\* C17, its case: a note was turned on at the first drain, off at the second, and
\* the third drain, made without a push, sent nothing
NoteOnThenOffThenSilence ==
    /\ drains = 3
    /\ \E i \in DOMAIN sent : IsNoteOn(i) /\ sent[i].drain = 1
    /\ \E k \in DOMAIN sent : IsNoteOff(k) /\ sent[k].drain = 2
    /\ \A k \in DOMAIN sent : sent[k].drain # 3
    /\ _stack_off = {}

\* C18: has_neighbor(g) for an operator at (x, y) is true if and only if at
\* least one of the cells (x-1, y), (x+1, y), (x, y-1), (x, y+1) that lie inside
\* the grid holds g; diagonal cells never count, and for an operator on the first
\* row or first column no cell of the opposite edge counts as a neighbour.
HasNeighborIffOrthogonalCell ==
    call.fn = "has_neighbor" =>
        (call.ret <=>
            \E d \in {<<-1, 0>>, <<1, 0>>, <<0, -1>>, <<0, 1>>} :
                /\ is_inside(state, call.x + d[1], call.y + d[2])
                /\ state[call.y + d[2] + 1][call.x + d[1] + 1] = call.value)

\* C19: a write performed by an operator during a tick is visible to every
\* operator that executes later in the same tick: an operator reads its input
\* cells when it executes, not when it was discovered, so the outcome of its
\* execution is that of run on the grid as the earlier operators left it.
LaterOperatorSeesEarlierWrite ==
    [][(AtOperator /\ idx \in ran')
       => \E rnd \in RandomChoices(state, operators[idx]) :
          \E R \in {run([st |-> state, lk |-> locks, ev |-> midi_events,
                         op |-> operators[idx], exc |-> "", payload |-> None,
                         bang |-> FALSE, outs |-> << >>], frame, rnd)} :
              /\ state' = R.st
              /\ locks' = R.lk
              /\ midi_events' = R.ev
              /\ last'.payload = R.payload]_vars

\* C19, its case: an operator has just executed one of whose input cells was
\* written earlier in this tick, and its payload is not the one it would have
\* produced on the grid as it was when the tick began
ExecutedOnFreshInput ==
    /\ pc = "tick"
    /\ idx > 1
    /\ last.ran
    /\ last.payload # None
    /\ \E k \in DOMAIN operators[idx - 1].ports :
           /\ ~operators[idx - 1].ports[k].is_output
           /\ is_inside(state, operators[idx - 1].ports[k].x, operators[idx - 1].ports[k].y)
           /\ peek(state, operators[idx - 1].ports[k].x, operators[idx - 1].ports[k].y)
              # peek(tick_start, operators[idx - 1].ports[k].x, operators[idx - 1].ports[k].y)
    /\ last.payload # operation([st |-> tick_start, lk |-> locks, ev |-> midi_events,
                                 op |-> operators[idx - 1], exc |-> "", payload |-> None,
                                 bang |-> FALSE, outs |-> << >>], frame, 0).payload

\* C20: in every tick in which an H at (x, y) executes, the cell (x, y+1) is
\* locked and the operator standing at (x, y+1) is not executed in that tick,
\* while H writes no glyph anywhere.
HaltLocksSouthAndWritesNothing ==
    [][AtOperator =>
         /\ (operators[idx].klass = "Halt" /\ idx \in ran')
            => (/\ state' = state
                /\ is_inside(state, operators[idx].x, operators[idx].y + 1)
                   => locks'[operators[idx].y + 2][operators[idx].x + 1])
         /\ (\E i \in ran :
                /\ operators[i].klass = "Halt"
                /\ operators[i].x = operators[idx].x
                /\ operators[i].y + 1 = operators[idx].y)
            => (/\ idx \notin ran'
                /\ state' = state
                /\ locks'[operators[idx].y + 1][operators[idx].x + 1])]_vars

\* C20, its case: a tick has ended in which an H executed and the upper-case
\* operator standing south of it did not
OperatorSouthOfHaltSkipped ==
    /\ pc = "idle"
    /\ \E i \in ran : \E j \in DOMAIN operators :
           /\ operators[i].klass = "Halt"
           /\ operators[j].x = operators[i].x
           /\ operators[j].y = operators[i].y + 1
           /\ operators[j].is_passive
           /\ j \notin ran
           /\ state[operators[j].y + 1][operators[j].x + 1] = operators[j].glyph

\* C21: from_string(s) fails, building no grid, if s has no line, more than 200
\* lines, or a line whose length differs from the first line's; otherwise it
\* returns a grid with rows = number of lines, cols = length of the first line,
\* and cell (x, y) equal to character x of line y.
FromStringValidatesAndBuilds ==
    call.fn = "from_string" =>
        LET lines == splitlines(call.value)
        IN  IF \/ Len(lines) = 0
               \/ Len(lines) > 200
               \/ \E i \in DOMAIN lines : Len(lines[i]) # Len(lines[1])
            THEN call.ret.exc = "ValueError" /\ call.ret.state = << >>
            ELSE /\ call.ret.exc = ""
                 /\ call.ret.rows = Len(lines)
                 /\ call.ret.cols = Len(lines[1])
                 /\ Len(call.ret.state) = call.ret.rows
                 /\ \A y \in 0..(call.ret.rows - 1) :
                        /\ Len(call.ret.state[y + 1]) = call.ret.cols
                        /\ \A x \in 0..(call.ret.cols - 1) :
                               call.ret.state[y + 1][x + 1] = lines[y + 1][x + 1]

\* C21, its case: from_string has refused a string of 201 equally long lines
TooManyLinesRefused ==
    /\ call.fn = "from_string"
    /\ Len(splitlines(call.value)) = 201
    /\ \A i \in DOMAIN splitlines(call.value) : Len(splitlines(call.value)[i]) = 3
    /\ call.ret.exc = "ValueError"

\* what listen returns by the rule of C22 for a port at (x, y) with the default
\* `default` ("" for none) on the grid st
ListenRule(st, x, y, default) ==
    IF is_inside(st, x, y)
    THEN (IF default # "" /\ st[y + 1][x + 1] \in {DOT_GLYPH, BANG_GLYPH}
          THEN default
          ELSE st[y + 1][x + 1])
    ELSE None

\* C22: listen(port) returns the port's default if and only if the port has a
\* default and the cell at the port's position holds DOT or BANG, and otherwise
\* the glyph of that cell, the absent sentinel when the position is outside the
\* grid even if a default is set; listen_as_value(port) is the port's clamp
\* applied to value_of of that result.
ListenDefaultOrPeek ==
    /\ call.fn = "listen"
           => call.ret = ListenRule(state, call.x, call.y, call.value.default)
    /\ call.fn = "listen_as_value"
           => call.ret = ApplyClamp(call.value.clamp,
                             value_of(ListenRule(state, call.x, call.y, call.value.default)))

\* the rule of C22 on the positions Python's indexing does not wrap
ListenDefaultOrPeekUnwrapped ==
    (call.x >= 0 /\ call.y >= 0) => ListenDefaultOrPeek

\* a listen outside the grid that returned the port's default
ListenOutsideGaveDefault ==
    /\ call.fn = "listen"
    /\ ~is_inside(state, call.x, call.y)
    /\ call.value.default # ""
    /\ call.ret = call.value.default

\* n mod 36: the r in 0..35 with n = 36 * q + r for an integer q
Mod36(n) ==
    CHOOSE r \in 0..35 : \E q \in (0 - MaxIndex - 1)..(MaxIndex + 1) : n = 36 * q + r

\* the 36 symbols of the alphabet, in their lower-case and upper-case forms
Alphabet ==
    {GLYPH_TABLE[i] : i \in 1..36} \cup {UPPER_TABLE[i] : i \in LetterIdx}

\* C23: for every integer n, negative or beyond 35 included, value_of(key_of(n))
\* is n mod 36 for the lower-case and for the upper-case form of key_of; the
\* value of every glyph of the alphabet lies in 0..35 and is the same for its
\* lower-case and upper-case forms; DOT, BANG and the absent glyph decode to 0.
CodecRoundTrip ==
    /\ call.fn = "key_of" => value_of(call.ret) = Mod36(call.x)
    /\ (call.fn = "value_of" /\ call.value \in Alphabet)
           => /\ call.ret \in 0..35
              /\ call.ret = value_of(lower(call.value))
              /\ call.ret = value_of(upper(call.value))
    /\ (call.fn = "value_of" /\ call.value \in {DOT_GLYPH, BANG_GLYPH, None})
           => call.ret = 0

\* key_of of a negative index in its upper-case form: -1 gives Z
KeyOfNegativeUpper ==
    call.fn = "key_of" /\ call.x = -1 /\ call.value = TRUE /\ call.ret = "Z"

\* the value of the glyph g, with `default` standing in for DOT and BANG
ValueOr(g, default) == IF g \in {DOT_GLYPH, BANG_GLYPH} THEN default ELSE value_of(g)

\* the rate of a clock at (x, y): the value of the cell to its left, at least 1
ClockRate(st, x, y) ==
    IF ValueOr(CellRight(st, x, y, -1), 0) < 1 THEN 1 ELSE ValueOr(CellRight(st, x, y, -1), 0)

\* the mod of a clock at (x, y): the value of the cell to its right, 8 when that
\* cell holds DOT or BANG
ClockMod(st, x, y) == ValueOr(CellRight(st, x, y, 1), 8)

\* C24: a clock at (x, y) that executes at frame f with rate r (at least 1) and
\* mod m (8 when the mod cell holds DOT or BANG) writes the glyph of
\* floor(f / r) mod m to the cell (x, y + 1).
ClockWritesFrameOverRateModMod ==
    [][(/\ AtOperator
        /\ operators[idx].klass = "Clock"
        /\ idx \in ran'
        /\ is_inside(state, operators[idx].x, operators[idx].y + 1))
       => LET x == operators[idx].x
              y == operators[idx].y
          IN  /\ ClockMod(state, x, y) > 0
              /\ exc' = ""
              /\ lower(state'[y + 2][x + 1])
                     = key_of((frame \div ClockRate(state, x, y)) % ClockMod(state, x, y),
                              FALSE)]_vars

\* the rule of C24 on the executions of a clock that raise nothing
ClockWritesUnlessRaised ==
    [][(/\ AtOperator
        /\ operators[idx].klass = "Clock"
        /\ idx \in ran'
        /\ exc' = ""
        /\ is_inside(state, operators[idx].x, operators[idx].y + 1))
       => LET x == operators[idx].x
              y == operators[idx].y
          IN  /\ ClockMod(state, x, y) > 0
              /\ lower(state'[y + 2][x + 1])
                     = key_of((frame \div ClockRate(state, x, y)) % ClockMod(state, x, y),
                              FALSE)]_vars

\* what C25 says an increment at (x, y) writes on the grid st
IncrementGlyph(st, x, y) ==
    key_of((value_of(st[y + 2][x + 1]) + ValueOr(CellRight(st, x, y, -1), 1))
               % (IF value_of(CellRight(st, x, y, 1)) > 0
                  THEN value_of(CellRight(st, x, y, 1))
                  ELSE 36),
           FALSE)

\* whether the grid st is a row step, I, mod (both digits, mod > 0) above a row
\* that only the increment writes to
LoneIncrement(st) ==
    /\ Len(st) = 2
    /\ Len(st[1]) = 3
    /\ st[1][2] = "I"
    /\ st[1][1] \in {"1", "2", "3"}
    /\ st[1][3] \in {"2", "3", "4"}
    /\ st[2][1] = DOT_GLYPH
    /\ st[2][3] = DOT_GLYPH

\* C25: an increment at (x, y) that executes writes the glyph of
\* (value(out) + step) mod (mod if mod > 0 else 36) to (x, y + 1), out being the
\* glyph of its output cell and step 1 by default; hence an upper-case I with
\* step s and mod m > 0 whose output cell starts as DOT shows the glyph of
\* (k * s) mod m after k consecutive ticks.
IncrementAddsStepToOutput ==
    /\ [][(/\ AtOperator
           /\ operators[idx].klass = "Increment"
           /\ idx \in ran'
           /\ is_inside(state, operators[idx].x, operators[idx].y + 1))
          => /\ exc' = ""
             /\ lower(state'[operators[idx].y + 2][operators[idx].x + 1])
                    = IncrementGlyph(state, operators[idx].x, operators[idx].y)]_vars
    /\ []((pc = "idle" /\ LoneIncrement(state) /\ frame > 0)
             => state[2][2] = key_of((frame * value_of(state[1][1])) % value_of(state[1][3]),
                                     FALSE))

\* the rule of C25 on the executions of an increment that raise nothing
IncrementAddsStepUnlessRaised ==
    /\ [][(/\ AtOperator
           /\ operators[idx].klass = "Increment"
           /\ idx \in ran'
           /\ exc' = ""
           /\ is_inside(state, operators[idx].x, operators[idx].y + 1))
          => lower(state'[operators[idx].y + 2][operators[idx].x + 1])
                 = IncrementGlyph(state, operators[idx].x, operators[idx].y)]_vars
    /\ []((pc = "idle" /\ LoneIncrement(state) /\ frame > 0)
             => state[2][2] = key_of((frame * value_of(state[1][1])) % value_of(state[1][3]),
                                     FALSE))

\* three ticks of an upper-case I with step 3 and mod 4 have left 1 below it
IncrementWrappedAround ==
    /\ pc = "idle"
    /\ frame = 3
    /\ state = << << "3", "I", "4" >>, << ".", "1", "." >> >>

\* what C26 says an add at (x, y) writes on the grid st
AddGlyph(st, x, y) ==
    key_of((value_of(CellRight(st, x, y, -1)) + value_of(CellRight(st, x, y, 1))) % 36,
           FALSE)

\* C26: an add at (x, y) that executes writes the glyph of
\* (value(a) + value(b)) mod 36 to (x, y + 1), a being the glyph at (x - 1, y) and
\* b the glyph at (x + 1, y); a DOT or BANG input counts as 0 and the case of an
\* input letter does not change the sum.
AddWritesSumOfNeighbours ==
    [][(/\ AtOperator
        /\ operators[idx].klass = "Add"
        /\ idx \in ran'
        /\ is_inside(state, operators[idx].x, operators[idx].y + 1))
       => /\ exc' = ""
          /\ lower(state'[operators[idx].y + 2][operators[idx].x + 1])
                 = AddGlyph(state, operators[idx].x, operators[idx].y)
          /\ AddGlyph(state, operators[idx].x, operators[idx].y)
                 = AddGlyph(LowerGrid(state), operators[idx].x, operators[idx].y)]_vars

\* the rule of C26 on the executions of an add that raise nothing and read no
\* cell left of the first column
AddWritesSumUnlessRaisedOrWrapped ==
    [][(/\ AtOperator
        /\ operators[idx].klass = "Add"
        /\ idx \in ran'
        /\ exc' = ""
        /\ operators[idx].x > 0
        /\ is_inside(state, operators[idx].x, operators[idx].y + 1))
       => /\ lower(state'[operators[idx].y + 2][operators[idx].x + 1])
                 = AddGlyph(state, operators[idx].x, operators[idx].y)
          /\ AddGlyph(state, operators[idx].x, operators[idx].y)
                 = AddGlyph(LowerGrid(state), operators[idx].x, operators[idx].y)]_vars

\* the rule of C26 on the executions of an add that raise nothing
AddWritesSumUnlessRaised ==
    [][(/\ AtOperator
        /\ operators[idx].klass = "Add"
        /\ idx \in ran'
        /\ exc' = ""
        /\ is_inside(state, operators[idx].x, operators[idx].y + 1))
       => lower(state'[operators[idx].y + 2][operators[idx].x + 1])
              = AddGlyph(state, operators[idx].x, operators[idx].y)]_vars

\* the adds of C26's examples have written their sums
AddExamplesWritten ==
    /\ pc = "idle"
    /\ frame = 1
    /\ state \in { << << ".", "A", "2" >>, << ".", "2", "." >> >>,
                   << << "1", "A", "2" >>, << ".", "3", "." >> >>,
                   << << "z", "A", "Z" >>, << ".", "Y", "." >> >> }

\* the cells of the grid st that do not hold DOT
NonDot(st) ==
    {p \in {<<c - 1, r - 1>> : r \in DOMAIN st, c \in DOMAIN st[1]} :
        st[p[2] + 1][p[1] + 1] # DOT_GLYPH}

\* whether the glyph g at (x, y) is the only glyph of the grid st
LoneGlyph(st, g, x, y) ==
    /\ is_inside(st, x, y)
    /\ st[y + 1][x + 1] = g
    /\ NonDot(st) = {<<x, y>>}

\* C27: an upper-case E at (x, y) on a row whose cells east of it are DOT moves
\* exactly one cell east in each tick in which it executes, staying in its row,
\* and in the last column its cell becomes BANG instead; with nothing else on
\* the grid it stands at (x + k, y) after k < cols - x ticks and its cell is BANG
\* after exactly cols - x ticks.
EastTravelsThenExplodes ==
    /\ [][(/\ AtOperator
           /\ operators[idx].klass = "East"
           /\ idx \in ran'
           /\ state[operators[idx].y + 1][operators[idx].x + 1] = "E"
           /\ \A c \in (operators[idx].x + 1)..(cols - 1) :
                  state[operators[idx].y + 1][c + 1] = DOT_GLYPH)
          => LET x == operators[idx].x
                 y == operators[idx].y
             IN  /\ exc' = ""
                 /\ state' = IF x + 1 < cols
                             THEN [state EXCEPT ![y + 1][x + 1] = DOT_GLYPH,
                                                ![y + 1][x + 2] = "E"]
                             ELSE [state EXCEPT ![y + 1][x + 1] = BANG_GLYPH]]_vars
    /\ [][(pc = "tick" /\ pc' = "idle")
          => \A p \in NonDot(tick_start) :
                 LoneGlyph(tick_start, "E", p[1], p[2])
                     => IF p[1] + 1 < cols
                        THEN LoneGlyph(state', "E", p[1] + 1, p[2])
                        ELSE LoneGlyph(state', BANG_GLYPH, p[1], p[2])]_vars
    /\ \A d \in 1..MaxFrame :
           (/\ pc = "idle"
            /\ frame = 0
            /\ \E p \in NonDot(state) : p[1] = cols - d /\ LoneGlyph(state, "E", p[1], p[2]))
           ~> (/\ pc = "idle"
               /\ frame = d
               /\ \E p \in NonDot(state) :
                      p[1] = cols - 1 /\ LoneGlyph(state, BANG_GLYPH, p[1], p[2]))

\* C27, its case: two ticks have moved a lone E from the first to the third and
\* last column
EastTravelledToLastColumn ==
    /\ pc = "idle"
    /\ frame = 2
    /\ cols = 3
    /\ \E y \in 0..(rows - 1) : LoneGlyph(state, "E", 2, y) /\ locks[y + 1][3]

\* C28: no mover (E, W, N, S) advances more than one cell within a tick: the
\* operator that moved stands one cell from where it was discovered, and whatever
\* operator update_grid reaches on the cell a mover moved to in this tick, a
\* BANG discovered there before the move included, is not executed and changes
\* nothing.
MoverAdvancesOneCellPerTick ==
    /\ [][(/\ AtOperator
           /\ \E i \in moved : /\ operators[i].klass \in Movers
                               /\ operators[i].x = operators[idx].x
                               /\ operators[i].y = operators[idx].y)
          => (idx \notin ran' /\ state' = state)]_vars
    /\ [](\A i \in moved :
              operators[i].klass \in Movers
                  => /\ operators[i].x - considered[i][1] = MoveOffset(operators[i].klass)[1]
                     /\ operators[i].y - considered[i][2] = MoveOffset(operators[i].klass)[2])

\* C28, its case: a tick has ended in which a mover moved east or south onto a
\* cell where a BANG's operator had been discovered, and that operator, reached
\* later in the scan, was not executed
MoverPassedOverAtDestination ==
    /\ pc = "idle"
    /\ \E i \in moved : \E j \in DOMAIN operators :
           /\ operators[i].klass \in {"East", "South"}
           /\ j > i
           /\ operators[j].klass = "Bang"
           /\ operators[j].x = operators[i].x
           /\ operators[j].y = operators[i].y
           /\ j \notin ran
           /\ state[operators[i].y + 1][operators[i].x + 1] = operators[i].glyph

\* C29: an operator acts in a tick only if, when update_grid reaches it, its
\* cell still holds the glyph it was discovered from: an operator whose cell an
\* earlier operator of the tick has overwritten is not executed and changes
\* nothing.
OverwrittenOperatorDoesNotAct ==
    [][(/\ AtOperator
        /\ state[operators[idx].y + 1][operators[idx].x + 1]
               # tick_start[operators[idx].y + 1][operators[idx].x + 1])
       => (idx \notin ran' /\ state' = state)]_vars

\* an operator whose cell was overwritten has been executed and has moved
OverwrittenOperatorMoved ==
    /\ pc = "tick"
    /\ idx > 1
    /\ (idx - 1) \in ran
    /\ (idx - 1) \in moved
    /\ ~last.locked
    /\ tick_start[considered[idx - 1][2] + 1][considered[idx - 1][1] + 1] = "E"
    /\ state[operators[idx - 1].y + 1][operators[idx - 1].x + 1] = "E"
    /\ \E i \in ran : operators[i].klass \in {"Delay", "If"}

\* whether (x, y) is one of the five port cells of a midi operator that was
\* executed in this tick and still stands on the grid st
InPortOfMidi(st, ops, done, x, y) ==
    \E i \in done :
        /\ ops[i].klass = "Midi"
        /\ ops[i].y = y
        /\ x - ops[i].x \in 1..5
        /\ st[ops[i].y + 1][ops[i].x + 1] = MIDI_GLYPH

\* C30: a ':' whose own cell is not locked is executed on every tick and locks
\* each of its five port cells (x+1..x+5, y) that lies inside the grid, with or
\* without a BANG neighbour and with or without an event; an operator standing in
\* one of those cells is not executed while the ':' is there.
MidiLocksItsPortsEveryTick ==
    /\ [][(/\ AtOperator
           /\ operators[idx].klass = "Midi"
           /\ ~is_locked(locks, operators[idx].x, operators[idx].y))
          => /\ idx \in ran'
             /\ \A k \in 1..5 :
                    is_inside(state, operators[idx].x + k, operators[idx].y)
                        => locks'[operators[idx].y + 1][operators[idx].x + k + 1]]_vars
    /\ [][(/\ AtOperator
           /\ InPortOfMidi(state, operators, ran, operators[idx].x, operators[idx].y))
          => (idx \notin ran' /\ state' = state)]_vars

\* C30, its case: a tick has ended in which a ':' on a grid without any BANG
\* queued no event, and the upper-case operator in one of its port cells was
\* not executed
MidiPortOperatorSkippedWithoutBang ==
    /\ pc = "idle"
    /\ frame > 0
    /\ midi_events = << >>
    /\ \A p \in NonDot(state) : state[p[2] + 1][p[1] + 1] # BANG_GLYPH
    /\ \E j \in DOMAIN operators :
           /\ operators[j].is_passive
           /\ operators[j].klass # "Midi"
           /\ InPortOfMidi(state, operators, ran, operators[j].x, operators[j].y)
           /\ j \notin ran

\* C31: the k-th tick of a run (k = 0, 1, 2, ...) is evaluated with the frame
\* number k: the first at frame 0, each later one at the previous frame plus 1,
\* and the cursor moves and cell edits between ticks leave the frame number
\* unchanged.
TickNumberIsFrameNumber ==
    /\ [](pc = "tick" => frame = ticks - 1)
    /\ [][(ticks' = ticks + 1 /\ ticks > 0) => frame' = frame + 1]_vars
    /\ [][(cursor' # cursor \/ call' # call) => frame' = frame]_vars

\* the frame numbering of the code: the k-th tick (k = 0, 1, 2, ...) is
\* evaluated with the frame number k + 1, and nothing but a tick changes it
TickNumberIsFrameNumberPlusOne ==
    /\ [](pc = "tick" => frame = ticks)
    /\ [][ticks' = ticks + 1 => frame' = frame + 1]_vars
    /\ [][(cursor' # cursor \/ call' # call) => frame' = frame]_vars

\* the first tick is being evaluated, after a cursor move and a cell edit, with
\* the frame number 1
FirstTickAtFrameOne ==
    /\ pc = "tick"
    /\ ticks = 1
    /\ frame = 1
    /\ cursor # [x |-> 0, y |-> 0]
    /\ call.fn = "edit"

\* the triples sounding after the messages s: sent as note-on and not followed
\* by a note-off for the same channel and note
Sounding(s) ==
    {s[i].triple : i \in {i \in DOMAIN s :
        /\ s[i].msg.status \div 16 = 9
        /\ ~\E k \in DOMAIN s :
               /\ k > i
               /\ s[k].msg.status \div 16 = 8
               /\ s[k].msg.status % 16 = s[i].msg.status % 16
               /\ s[k].msg.note = s[i].msg.note}}

\* the triples the run_midi call number d sent as note-on among the messages s
TurnedOnAt(s, d) ==
    {s[i].triple : i \in {i \in DOMAIN s : s[i].msg.status \div 16 = 9 /\ s[i].drain = d}}

\* C32: after each run_midi the pending-on set (_stack) is empty and the
\* pending-off set (_stack_off) is exactly the set of triples sent as note-on
\* during that call; the notes sounding on the wire are exactly the pending-off
\* set, after run_midi and after every push_note that follows it.
PendingOffIsWhatSounds ==
    /\ [][drains' = drains + 1
          => /\ _stack' = {}
             /\ _stack_off' = TurnedOnAt(sent', drains')
             /\ _stack_off' = _stack
             /\ Sounding(sent') = _stack_off']_vars
    /\ [](Sounding(sent) = _stack_off)

\* C32, its case: the second run_midi has turned off the two notes of the first
\* and turned one of them on again, which is the one pending-off note
NoteTurnedOffAndOnAgain ==
    /\ drains = 2
    /\ _stack = {}
    /\ Cardinality(TurnedOnAt(sent, 1)) = 2
    /\ Cardinality(_stack_off) = 1
    /\ _stack_off \subseteq TurnedOnAt(sent, 1)
    /\ Sounding(sent) = _stack_off
    /\ Len(sent) = 5

====
